---- MODULE Spec2Model ----
(***************************************************************************)
(* A model of the JSON manipulation engine: the path engine                *)
(* (json.path.ts), the merge, compare, validate and generate engines.      *)
(*                                                                         *)
(* Every JavaScript string is a sequence of one-character strings, so the  *)
(* scanners of the source (path expressions, placeholders) are modelled    *)
(* character by character.  Every JavaScript value is a record of one      *)
(* shape: t is the runtime type tag, n the number (or 0/1 of a boolean),   *)
(* s the characters of a string, c the entries of a container in           *)
(* insertion order (array elements carry the empty key) and x the          *)
(* non-index properties an array has acquired (arr[-1] = v).               *)
(***************************************************************************)
EXTENDS Integers, Sequences, FiniteSets, TLC

VARIABLES
  json,      \* path engine: the caller's document, mutated in place
  path,      \* path engine: the path expression of the calls
  value,     \* path engine: the value handed to setValue
  tgt,       \* merge engine: the caller's target object
  src,       \* merge engine: the caller's source object
  opts,      \* merge engine: the options of the call
  docA,      \* compare engine: the first value of the call
  docB,      \* compare engine: the second value of the call
  instance,  \* validate engine: the document to validate
  schema,    \* validate engine: the schema, itself a JSON value
  template,  \* generate engine: the template
  data,      \* generate engine: the data the placeholders read
  genOptions, \* generate engine: the options of the call
  pc,        \* the call that ran last
  ret        \* what that call returned or raised

pathVars == <<json, path, value>>
mergeVars == <<tgt, src, opts>>
compareVars == <<docA, docB>>
validateVars == <<instance, schema>>
generateVars == <<template, data, genOptions>>
inputVars == <<pathVars, mergeVars, compareVars, validateVars, generateVars>>
vars ==
  <<json, path, value, tgt, src, opts, docA, docB, instance, schema,
    template, data, genOptions, pc, ret>>

----------------------------------------------------------------------------
(* Bounds of the explored inputs *)

MaxArrLen == 2
MaxPathLen == 3
SmallMaxDepth == 1

----------------------------------------------------------------------------
(* JavaScript values *)

Val(t, n, s, c, x) == [t |-> t, n |-> n, s |-> s, c |-> c, x |-> x]
Entry(k, v) == [k |-> k, v |-> v]

JUndef == Val("undefined", 0, <<>>, <<>>, <<>>)
JNull == Val("null", 0, <<>>, <<>>, <<>>)
JBool(b) == Val("boolean", IF b THEN 1 ELSE 0, <<>>, <<>>, <<>>)
JNum(i) == Val("number", i, <<>>, <<>>, <<>>)
JStr(chars) == Val("string", 0, chars, <<>>, <<>>)
JArr(items) == Val("array", 0, <<>>, [i \in 1..Len(items) |-> Entry(<<>>, items[i])], <<>>)
JObj(entries) == Val("object", 0, <<>>, entries, <<>>)

IsArray(v) == v.t = "array"
IsObject(v) == v.t = "object"
IsNullish(v) == v.t = "null" \/ v.t = "undefined"

ArrLen(a) == Len(a.c)
Elems(a) == [i \in 1..Len(a.c) |-> a.c[i].v]
Keys(o) == [i \in 1..Len(o.c) |-> o.c[i].k]

\* index of key k among entries es, 0 when absent
RECURSIVE IndexOfKey(_, _, _)
IndexOfKey(es, k, i) ==
  IF i > Len(es) THEN 0
  ELSE IF es[i].k = k THEN i
  ELSE IndexOfKey(es, k, i + 1)

\* key in obj
HasKey(o, k) == IndexOfKey(o.c, k, 1) # 0

\* obj[key]
GetProp(o, k) ==
  LET i == IndexOfKey(o.c, k, 1) IN IF i = 0 THEN JUndef ELSE o.c[i].v

SetEntry(es, k, v) ==
  LET i == IndexOfKey(es, k, 1) IN
  IF i = 0 THEN Append(es, Entry(k, v))
  ELSE [es EXCEPT ![i] = Entry(k, v)]

\* obj[key] = v
SetProp(o, k, v) == [o EXCEPT !.c = SetEntry(o.c, k, v)]

RemoveAt(es, i) == [j \in 1..(Len(es) - 1) |-> IF j < i THEN es[j] ELSE es[j + 1]]

\* delete obj[key]
DelProp(o, k) ==
  LET i == IndexOfKey(o.c, k, 1) IN
  IF i = 0 THEN o ELSE [o EXCEPT !.c = RemoveAt(o.c, i)]

\* the decimal digits
Digits == <<"0", "1", "2", "3", "4", "5", "6", "7", "8", "9">>

RECURSIVE NatChars(_)
NatChars(n) ==
  IF n < 10 THEN <<Digits[n + 1]>>
  ELSE NatChars(n \div 10) \o <<Digits[(n % 10) + 1]>>

\* String(n) of an integer
NumChars(n) == IF n < 0 THEN <<"-">> \o NatChars(0 - n) ELSE NatChars(n)

\* the characters of a string literal of the source
Chars(str) == [i \in 1..Len(str) |-> SubSeq(str, i, i)]

\* if (v): undefined, null, false, 0 and '' are falsy
Truthy(v) ==
  CASE v.t \in {"undefined", "null"} -> FALSE
    [] v.t = "boolean" -> v.n = 1
    [] v.t = "number" -> v.n # 0
    [] v.t = "string" -> v.s # <<>>
    [] OTHER -> TRUE

\* arr[m]: an element, or the property named String(m) outside 0..length-1
ArrGet(a, m) ==
  IF m >= 0 /\ m < Len(a.c) THEN a.c[m + 1].v
  ELSE LET i == IndexOfKey(a.x, NumChars(m), 1) IN
       IF i = 0 THEN JUndef ELSE a.x[i].v

\* arr[m] = v: m >= length lengthens the array, m < 0 sets a property
ArrSet(a, m, v) ==
  IF m >= 0 /\ m < Len(a.c) THEN [a EXCEPT !.c[m + 1] = Entry(<<>>, v)]
  ELSE IF m >= Len(a.c)
  THEN [a EXCEPT !.c = [i \in 1..(m + 1) |->
                          IF i <= Len(a.c) THEN a.c[i]
                          ELSE IF i = m + 1 THEN Entry(<<>>, v)
                          ELSE Entry(<<>>, JUndef)]]
  ELSE [a EXCEPT !.x = SetEntry(a.x, NumChars(m), v)]

\* arr.push(v)
ArrPush(a, v) == [a EXCEPT !.c = Append(a.c, Entry(<<>>, v))]

\* a splice that takes a negative start for the start of the array
ArrSplice1FromStart(a, start) ==
  LET len == Len(a.c)
      from == IF start < 0 THEN 0 ELSE (IF start > len THEN len ELSE start)
  IN IF from >= len THEN a ELSE [a EXCEPT !.c = RemoveAt(a.c, from + 1)]

\* arr.splice(start, 1)
ArrSplice1(a, start) ==
  LET len == Len(a.c)
      from == IF start < 0 THEN (IF len + start < 0 THEN 0 ELSE len + start)
              ELSE (IF start > len THEN len ELSE start)
  IN IF from >= len THEN a ELSE [a EXCEPT !.c = RemoveAt(a.c, from + 1)]

----------------------------------------------------------------------------
(* Structural equality of JSON values: arrays by position, objects by key  *)
(* whatever the insertion order; the stray properties of arrays are not    *)
(* part of the JSON value.                                                 *)

RECURSIVE StructEq(_, _)
StructEq(a, b) ==
  /\ a.t = b.t
  /\ CASE a.t = "array" ->
            /\ Len(a.c) = Len(b.c)
            /\ \A i \in 1..Len(a.c) : StructEq(a.c[i].v, b.c[i].v)
       [] a.t = "object" ->
            /\ Len(a.c) = Len(b.c)
            /\ \A i \in 1..Len(a.c) :
                 /\ HasKey(b, a.c[i].k)
                 /\ StructEq(a.c[i].v, GetProp(b, a.c[i].k))
       [] OTHER -> a.n = b.n /\ a.s = b.s

----------------------------------------------------------------------------
(* Path engine: json.path.ts *)

\* a path segment: a number (typeof segment === 'number') or a string key;
\* NoSeg is segments[i] read past the end of the array (undefined)
Seg(num, i, k) == [def |-> TRUE, num |-> num, i |-> i, k |-> k]
IdxSeg(i) == Seg(TRUE, i, <<>>)
KeySeg(k) == Seg(FALSE, 0, k)
NoSeg == [def |-> FALSE, num |-> FALSE, i |-> 0, k |-> <<>>]
SegAt(segs, i) == IF i >= 1 /\ i <= Len(segs) THEN segs[i] ELSE NoSeg

IsDigit(ch) == \E d \in 1..10 : Digits[d] = ch
DigitVal(ch) == (CHOOSE d \in 1..10 : Digits[d] = ch) - 1

\* /^-?\d+$/.test(content)
IsIntText(cs) ==
  LET body == IF Len(cs) > 0 /\ cs[1] = "-" THEN Tail(cs) ELSE cs
  IN Len(body) > 0 /\ \A i \in 1..Len(body) : IsDigit(body[i])

RECURSIVE NatOfChars(_, _)
NatOfChars(cs, acc) ==
  IF cs = <<>> THEN acc ELSE NatOfChars(Tail(cs), acc * 10 + DigitVal(cs[1]))

\* parseInt(content, 10) of a text that passed IsIntText
ParseInt(cs) ==
  IF cs[1] = "-" THEN 0 - NatOfChars(Tail(cs), 0) ELSE NatOfChars(cs, 0)

RECURSIVE TrimLeft(_)
TrimLeft(cs) == IF cs # <<>> /\ cs[1] = " " THEN TrimLeft(Tail(cs)) ELSE cs

RECURSIVE TrimRight(_)
TrimRight(cs) ==
  IF cs # <<>> /\ cs[Len(cs)] = " " THEN TrimRight(SubSeq(cs, 1, Len(cs) - 1)) ELSE cs

\* String.prototype.trim
Trim(cs) == TrimRight(TrimLeft(cs))

\* .replace(/\\"/g, '"').replace(/\\'/g, "'")
RECURSIVE Unescape(_)
Unescape(cs) ==
  IF cs = <<>> THEN <<>>
  ELSE IF Len(cs) >= 2 /\ cs[1] = "\\" /\ (cs[2] = "\"" \/ cs[2] = "'")
  THEN <<cs[2]>> \o Unescape(SubSeq(cs, 3, Len(cs)))
  ELSE <<cs[1]>> \o Unescape(Tail(cs))

IsQuoted(cs) ==
  /\ Len(cs) >= 1
  /\ \/ cs[1] = "\"" /\ cs[Len(cs)] = "\""
     \/ cs[1] = "'" /\ cs[Len(cs)] = "'"

\* the segment pushed for the content of a bracket group
BracketSegment(content) ==
  IF IsIntText(content) THEN IdxSeg(ParseInt(content))
  ELSE IF IsQuoted(content)
  THEN KeySeg(Unescape(SubSeq(content, 2, Len(content) - 1)))
  ELSE KeySeg(content)

\* one character of the scan of parsePathExpression
ScanChar(st, expression, i) ==
  LET char == expression[i] IN
  IF st.inBrackets THEN
    IF st.quoteChar # "" THEN
      [st EXCEPT !.current = st.current \o <<char>>,
                 !.quoteChar = IF char = st.quoteChar /\ expression[i - 1] # "\\"
                               THEN "" ELSE st.quoteChar]
    ELSE IF char = "\"" \/ char = "'" THEN
      [st EXCEPT !.quoteChar = char, !.current = st.current \o <<char>>]
    ELSE IF char = "]" THEN
      LET content == Trim(st.current) IN
      IF content = <<>> THEN [st EXCEPT !.inBrackets = FALSE, !.err = "Empty bracket expression"]
      ELSE [st EXCEPT !.inBrackets = FALSE,
                      !.segments = Append(st.segments, BracketSegment(content)),
                      !.current = <<>>]
    ELSE [st EXCEPT !.current = st.current \o <<char>>]
  ELSE
    IF char = "." \/ char = "[" THEN
      [st EXCEPT !.segments = IF st.current # <<>>
                              THEN Append(st.segments, KeySeg(st.current))
                              ELSE st.segments,
                 !.current = <<>>,
                 !.inBrackets = (char = "[")]
    ELSE [st EXCEPT !.current = st.current \o <<char>>]

RECURSIVE ScanFrom(_, _, _)
ScanFrom(st, expression, i) ==
  IF i > Len(expression) \/ st.err # "" THEN st
  ELSE ScanFrom(ScanChar(st, expression, i), expression, i + 1)

\* parsePathExpression: the segments, or the message of the JsonPathError
parsePathExpression(expression) ==
  LET st == ScanFrom([segments |-> <<>>, current |-> <<>>, inBrackets |-> FALSE,
                      quoteChar |-> "", err |-> ""], expression, 1)
  IN IF st.err # "" THEN [segments |-> <<>>, err |-> st.err]
     ELSE IF st.inBrackets
     THEN [segments |-> <<>>, err |-> "Unclosed bracket in path expression"]
     ELSE [segments |-> IF st.current # <<>>
                        THEN Append(st.segments, KeySeg(st.current))
                        ELSE st.segments,
           err |-> ""]

\* the text of one segment in getPathString / normalizePath
SegText(s) == IF s.num THEN <<"[">> \o NumChars(s.i) \o <<"]">> ELSE s.k

\* segments.map(...).join('.').replace(/\.\[/g, '[')
RECURSIVE getPathString(_)
getPathString(segments) ==
  IF segments = <<>> THEN <<>>
  ELSE IF Len(segments) = 1 THEN SegText(segments[1])
  ELSE LET rest == getPathString(Tail(segments)) IN
       IF segments[2].num THEN SegText(segments[1]) \o rest
       ELSE SegText(segments[1]) \o <<".">> \o rest

createDefaultValue(currentSegment, nextSegment) ==
  IF nextSegment.def /\ (nextSegment.num \/ nextSegment.k = <<"0">>) THEN JArr(<<>>)
  ELSE IF nextSegment.def THEN JObj(<<>>)
  ELSE IF currentSegment.num THEN JArr(<<>>)
  ELSE JObj(<<>>)

\* the value a chain of references reaches from tree: loc is the list of
\* segments followed from the root
RECURSIVE GetAt(_, _)
GetAt(tree, loc) ==
  IF loc = <<>> THEN tree
  ELSE LET h == loc[1] IN
       IF IsArray(tree) /\ h.num THEN GetAt(ArrGet(tree, h.i), Tail(loc))
       ELSE IF IsObject(tree) /\ ~h.num THEN GetAt(GetProp(tree, h.k), Tail(loc))
       ELSE JUndef

\* the tree after the assignment container[key] = v on the container at
\* the front of loc (loc names the container and then the key)
RECURSIVE SetAt(_, _, _)
SetAt(tree, loc, v) ==
  IF loc = <<>> THEN v
  ELSE LET h == loc[1] IN
       IF IsArray(tree) /\ h.num
       THEN ArrSet(tree, h.i, SetAt(ArrGet(tree, h.i), Tail(loc), v))
       ELSE IF IsObject(tree) /\ ~h.num
       THEN SetProp(tree, h.k, SetAt(GetProp(tree, h.k), Tail(loc), v))
       ELSE tree

\* while (current.length <= index) current.push(undefined)
RECURSIVE PushUntil(_, _)
PushUntil(a, index) ==
  IF Len(a.c) <= index THEN PushUntil(ArrPush(a, JUndef), index) ELSE a

JsonPathOptions(create, deleteFlag, hasValue, newValue) ==
  [create |-> create, delete |-> deleteFlag, hasValue |-> hasValue, value |-> newValue]

\* the locals of jsonPath: tree is the structure current and parent point
\* into (detached: a structure built for a null root, which nothing
\* references), cur and par the places of current and parent in it
WalkInit(root) ==
  [tree |-> root, detached |-> FALSE, cur |-> <<>>, par |-> <<>>, hasPar |-> FALSE,
   pkey |-> NoSeg, exists |-> TRUE, brk |-> FALSE, err |-> "", msg |-> ""]

Throw(st, err, msg) == [st EXCEPT !.err = err, !.msg = msg]

\* parent[parentKey] = v; the module is strict-mode code, where assigning
\* a property of a primitive raises TypeError
AssignParent(st, v) ==
  LET parent == GetAt(st.tree, st.par) IN
  IF IsArray(parent) \/ IsObject(parent)
  THEN [st EXCEPT !.tree = SetAt(st.tree, st.par \o <<st.pkey>>, v)]
  ELSE Throw(st, "TypeError", "Cannot create property")

\* lines 52-73: current is null or undefined
WalkNullish(st, segments, i, create) ==
  LET isLast == i = Len(segments)
      current == GetAt(st.tree, st.cur)
  IN IF ~IsNullish(current) THEN st
     ELSE IF ~create
     THEN Throw([st EXCEPT !.exists = FALSE], "JsonPathError", "Cannot traverse null/undefined")
     ELSE LET fresh == IF isLast
                       THEN createDefaultValue(segments[i], SegAt(segments, i + 1))
                       ELSE createDefaultValue(SegAt(segments, i + 1), SegAt(segments, i + 2))
          IN IF st.hasPar
             THEN [AssignParent(st, fresh) EXCEPT !.exists = FALSE,
                                                  !.cur = st.par \o <<st.pkey>>]
             ELSE [st EXCEPT !.exists = FALSE, !.tree = fresh, !.detached = TRUE,
                             !.cur = <<>>]

AdjustedIndexOffByOne(current, segment) == Len(current.c) - 1 + segment.i

\* line 84: a negative index counts from the end
AdjustedIndex(current, segment) == Len(current.c) + segment.i

\* lines 75-151: one step down from current
WalkDescend(st0, segments, i, create) ==
  LET segment == segments[i]
      isLast == i = Len(segments)
      st == [st0 EXCEPT !.par = st0.cur, !.hasPar = TRUE, !.pkey = segment]
      current == GetAt(st.tree, st.cur)
  IN
  IF IsArray(current) THEN
    IF segment.num THEN
      IF segment.i < 0 THEN
        LET adjustedIndex == AdjustedIndex(current, segment) IN
        IF (adjustedIndex < 0 \/ adjustedIndex >= Len(current.c)) /\ ~create
        THEN Throw(st, "JsonPathError", "Array index out of bounds")
        ELSE [st EXCEPT !.tree = IF adjustedIndex < 0 \/ adjustedIndex >= Len(current.c)
                                 THEN SetAt(st.tree, st.cur, PushUntil(current, adjustedIndex))
                                 ELSE st.tree,
                        !.cur = st.cur \o <<IdxSeg(adjustedIndex)>>]
      ELSE
        IF segment.i >= Len(current.c) /\ ~create
        THEN Throw(st, "JsonPathError", "Array index out of bounds")
        ELSE [st EXCEPT !.tree = IF segment.i >= Len(current.c)
                                 THEN SetAt(st.tree, st.cur, PushUntil(current, segment.i))
                                 ELSE st.tree,
                        !.cur = st.cur \o <<segment>>]
    ELSE Throw(st, "JsonPathError", "Expected array index")
  ELSE IF IsObject(current) THEN
    IF ~segment.num THEN
      IF ~HasKey(current, segment.k) THEN
        IF create THEN
          LET made == IF isLast THEN JUndef
                      ELSE createDefaultValue(SegAt(segments, i + 1), SegAt(segments, i + 2))
          IN [st EXCEPT !.tree = SetAt(st.tree, st.cur \o <<segment>>, made),
                        !.cur = st.cur \o <<segment>>]
        ELSE IF ~isLast THEN [st EXCEPT !.exists = FALSE, !.brk = TRUE]
        ELSE [st EXCEPT !.cur = st.cur \o <<segment>>]
      ELSE [st EXCEPT !.cur = st.cur \o <<segment>>]
    ELSE Throw(st, "JsonPathError", "Expected object key")
  ELSE
    IF create /\ isLast
    THEN AssignParent(st, createDefaultValue(segment, SegAt(segments, i + 1)))
    ELSE [st EXCEPT !.exists = FALSE, !.brk = TRUE]

\* the traversal loop of jsonPath, lines 48-152
RECURSIVE Walk(_, _, _, _)
Walk(st, segments, i, create) ==
  IF i > Len(segments) \/ st.brk \/ st.err # "" THEN st
  ELSE LET st1 == WalkNullish(st, segments, i, create) IN
       IF st1.err # "" THEN st1
       ELSE Walk(WalkDescend(st1, segments, i, create), segments, i + 1, create)

\* what a call of jsonPath leaves behind: the result object (value, exists,
\* key, target), or the error raised, and doc, the caller's json after
\* the call (target is that same object)
PathResult(v, exists, key, doc, err, msg) ==
  [value |-> v, exists |-> exists, key |-> key, target |-> doc, doc |-> doc,
   err |-> err, msg |-> msg]

\* lines 154-226: delete, assign or read at the place the walk reached
Finish(st, root, options) ==
  LET doc == IF st.detached THEN root ELSE st.tree IN
  IF st.err # "" THEN PathResult(JUndef, FALSE, st.pkey, doc, st.err, st.msg)
  ELSE IF st.exists THEN
    IF options.delete THEN
      LET parent == GetAt(st.tree, st.par)
          removed == IF IsArray(parent) THEN ArrSplice1(parent, st.pkey.i)
                     ELSE DelProp(parent, st.pkey.k)
          tree == SetAt(st.tree, st.par, removed)
      IN PathResult(JUndef, FALSE, st.pkey, tree, "", "")
    ELSE IF options.hasValue THEN
      LET st1 == AssignParent(st, options.value) IN
      IF st1.err # "" THEN PathResult(JUndef, FALSE, st.pkey, doc, st1.err, st1.msg)
      ELSE PathResult(options.value, TRUE, st.pkey, st1.tree, "", "")
    ELSE PathResult(GetAt(st.tree, st.cur), TRUE, st.pkey, doc, "", "")
  ELSE
    IF options.create /\ options.hasValue /\ st.hasPar THEN
      LET st1 == AssignParent(st, options.value) IN
      IF st1.err # "" THEN PathResult(JUndef, FALSE, st.pkey, doc, st1.err, st1.msg)
      ELSE PathResult(options.value, TRUE, st.pkey,
                      IF st.detached THEN root ELSE st1.tree, "", "")
    ELSE PathResult(JUndef, FALSE, st.pkey, doc, "", "")

\* jsonPath(json, expression, options)
jsonPath(root, expression, options) ==
  LET parsed == parsePathExpression(expression) IN
  IF parsed.err # "" THEN PathResult(JUndef, FALSE, NoSeg, root, "JsonPathError", parsed.err)
  ELSE IF parsed.segments = <<>> THEN PathResult(root, TRUE, NoSeg, root, "", "")
  ELSE Finish(Walk(WalkInit(root), parsed.segments, 1, options.create), root, options)

NoOptions == JsonPathOptions(FALSE, FALSE, FALSE, JUndef)

\* getValue(json, path): the value, undefined when jsonPath raised
getValue(root, expression) ==
  LET result == jsonPath(root, expression, NoOptions) IN
  IF result.err # "" THEN JUndef ELSE result.value

\* hasPath(json, path): exists of jsonPath, false when it raised
hasPath(root, expression) ==
  LET result == jsonPath(root, expression, NoOptions) IN
  IF result.err # "" THEN FALSE ELSE result.exists

\* maxDepth = 100, the default of getAllPaths
PathsMaxDepth == 100

\* parts.join(delimiter)
RECURSIVE Join(_, _)
Join(parts, delimiter) ==
  IF parts = <<>> THEN <<>>
  ELSE IF Len(parts) = 1 THEN parts[1]
  ELSE parts[1] \o delimiter \o Join(Tail(parts), delimiter)

\* traverse(current, currentPath, depth) of getAllPaths under its default
\* options: the path of every node but a root array or object, then the
\* paths below it, an element under its index as text and a value under its
\* key
RECURSIVE traverse(_, _, _)
RECURSIVE TraverseChildren(_, _, _, _)
TraverseChildren(current, currentPath, depth, i) ==
  IF i > Len(current.c) THEN <<>>
  ELSE traverse(current.c[i].v,
                Append(currentPath, IF IsArray(current) THEN NatChars(i - 1)
                                    ELSE current.c[i].k),
                depth + 1)
         \o TraverseChildren(current, currentPath, depth, i + 1)
traverse(current, currentPath, depth) ==
  IF depth > PathsMaxDepth THEN <<>>
  ELSE (IF (IsArray(current) \/ IsObject(current)) /\ currentPath = <<>> THEN <<>>
        ELSE <<Join(currentPath, <<".">>)>>)
         \o (IF IsArray(current) \/ IsObject(current)
             THEN TraverseChildren(current, currentPath, depth, 1)
             ELSE <<>>)

\* getAllPaths(json)
getAllPaths(root) == traverse(root, <<>>, 0)

\* str.includes(sub)
StringIncludes(str, sub) ==
  \E i \in 1..(Len(str) - Len(sub) + 1) : SubSeq(str, i, i + Len(sub) - 1) = sub

\* the loop of findPaths over paths: a path whose getValue is undefined is
\* skipped, the others are kept with their value when path.includes(pattern)
RECURSIVE FindIn(_, _, _, _)
FindIn(root, paths, pattern, i) ==
  IF i > Len(paths) THEN <<>>
  ELSE (IF getValue(root, paths[i]) = JUndef THEN <<>>
        ELSE IF StringIncludes(paths[i], pattern)
        THEN <<[path |-> paths[i], value |-> getValue(root, paths[i])]>>
        ELSE <<>>)
         \o FindIn(root, paths, pattern, i + 1)

\* findPaths(json, pattern) for a pattern given as a string
findPaths(root, pattern) == FindIn(root, getAllPaths(root), pattern, 1)

\* setValue(json, path, value): jsonPath with {create: true, value}
setValue(root, expression, v) ==
  jsonPath(root, expression, JsonPathOptions(TRUE, FALSE, v # JUndef, v))

\* deleteValue(json, path): jsonPath with {delete: true}; json is returned
deleteValue(root, expression) ==
  jsonPath(root, expression, JsonPathOptions(FALSE, TRUE, FALSE, JUndef))

\* return setValue(afterDelete, toPath, value)
MoveTo(afterDelete, toPath, v) ==
  IF afterDelete.err # "" THEN afterDelete
  ELSE setValue(afterDelete.doc, toPath, v)

\* moveValue after its read of fromPath
MoveFrom(fromResult, root, fromPath, toPath) ==
  IF fromResult.err # "" THEN fromResult
  ELSE IF ~fromResult.exists
  THEN PathResult(JUndef, FALSE, NoSeg, root, "JsonPathError", "Source path does not exist")
  ELSE MoveTo(deleteValue(root, fromPath), toPath, fromResult.value)

\* moveValue(json, fromPath, toPath)
moveValue(root, fromPath, toPath) ==
  MoveFrom(jsonPath(root, fromPath, NoOptions), root, fromPath, toPath)

----------------------------------------------------------------------------
(* JSON.stringify *)

\* a string literal of JSON text: quotes and backslashes are escaped
RECURSIVE EscapeChars(_)
EscapeChars(cs) ==
  IF cs = <<>> THEN <<>>
  ELSE (IF cs[1] = "\"" \/ cs[1] = "\\" THEN <<"\\", cs[1]>> ELSE <<cs[1]>>)
         \o EscapeChars(Tail(cs))

Quote(cs) == <<"\"">> \o EscapeChars(cs) \o <<"\"">>

RECURSIVE StringifyValue(_)
RECURSIVE StringifyElems(_, _)
RECURSIVE StringifyEntries(_, _, _)

\* the elements of an array from i on, separated by commas; undefined is null
StringifyElems(es, i) ==
  IF i > Len(es) THEN <<>>
  ELSE (IF i > 1 THEN <<",">> ELSE <<>>)
         \o (IF es[i].v.t = "undefined" THEN <<"n", "u", "l", "l">>
             ELSE StringifyValue(es[i].v))
         \o StringifyElems(es, i + 1)

\* the members of an object from i on, in insertion order; a member whose
\* value is undefined is left out
StringifyEntries(es, i, first) ==
  IF i > Len(es) THEN <<>>
  ELSE IF es[i].v.t = "undefined" THEN StringifyEntries(es, i + 1, first)
  ELSE (IF first THEN <<>> ELSE <<",">>)
         \o Quote(es[i].k) \o <<":">> \o StringifyValue(es[i].v)
         \o StringifyEntries(es, i + 1, FALSE)

StringifyValue(v) ==
  CASE v.t = "null" -> <<"n", "u", "l", "l">>
    [] v.t = "boolean" -> IF v.n = 1 THEN <<"t", "r", "u", "e">> ELSE <<"f", "a", "l", "s", "e">>
    [] v.t = "number" -> NumChars(v.n)
    [] v.t = "string" -> Quote(v.s)
    [] v.t = "array" -> <<"[">> \o StringifyElems(v.c, 1) \o <<"]">>
    [] v.t = "object" -> <<"{">> \o StringifyEntries(v.c, 1, TRUE) \o <<"}">>
    [] OTHER -> <<"undefined">>

\* JSON.stringify(value): the text, or undefined (no text) for undefined
JSONstringify(v) == StringifyValue(v)

----------------------------------------------------------------------------
(* Merge engine *)

DefaultMaxDepth == 100

\* getValueType: 'null', 'array', 'object' or typeof value
getValueType(v) == v.t

\* deepClone: arrays by map, objects entry by entry, the rest as it is
RECURSIVE deepClone(_)
deepClone(v) ==
  IF v.t = "array" THEN JArr([i \in 1..Len(v.c) |-> deepClone(v.c[i].v)])
  ELSE IF v.t = "object"
  THEN JObj([i \in 1..Len(v.c) |-> Entry(v.c[i].k, deepClone(v.c[i].v))])
  ELSE v

\* Object.keys of an object or an array
ObjectKeys(v) ==
  IF v.t = "array"
  THEN [i \in 1..Len(v.c) |-> NumChars(i - 1)] \o [i \in 1..Len(v.x) |-> v.x[i].k]
  ELSE [i \in 1..Len(v.c) |-> v.c[i].k]

\* value[key] for a key of Object.keys
Member(v, k) ==
  IF v.t = "array"
  THEN (IF IsIntText(k) /\ k[1] # "-" THEN ArrGet(v, ParseInt(k))
        ELSE LET i == IndexOfKey(v.x, k, 1) IN IF i = 0 THEN JUndef ELSE v.x[i].v)
  ELSE GetProp(v, k)

InSeq(q, e) == \E i \in 1..Len(q) : q[i] = e

\* a === b on two values that are not the same object
StrictEq(a, b) ==
  /\ a.t = b.t
  /\ a.t \notin {"array", "object"}
  /\ a.n = b.n /\ a.s = b.s

\* deepEqual of the merge engine
RECURSIVE deepEqualMerge(_, _)
deepEqualMerge(a, b) ==
  IF StrictEq(a, b) THEN TRUE
  ELSE IF IsArray(a) /\ IsArray(b)
  THEN /\ Len(a.c) = Len(b.c)
       /\ \A i \in 1..Len(a.c) : deepEqualMerge(a.c[i].v, b.c[i].v)
  ELSE IF a.t \in {"array", "object"} /\ b.t \in {"array", "object"}
  THEN LET keysA == ObjectKeys(a)
           keysB == ObjectKeys(b)
       IN /\ Len(keysA) = Len(keysB)
          /\ \A i \in 1..Len(keysA) :
               /\ InSeq(keysB, keysA[i])
               /\ deepEqualMerge(Member(a, keysA[i]), Member(b, keysA[i]))
  ELSE FALSE

\* what a merge returns: the merged value, or the JsonMergeError raised
\* with its path and its two values
Merged(v) == [v |-> v, err |-> "", msg |-> "", path |-> <<>>, valueA |-> JUndef, valueB |-> JUndef]
MergeError(msg, p, a, b) ==
  [v |-> JUndef, err |-> "JsonMergeError", msg |-> msg, path |-> p, valueA |-> a, valueB |-> b]

\* combined.filter(item => first occurrence of JSON.stringify(item))
RECURSIVE UnionFilter(_, _, _)
UnionFilter(combined, i, seen) ==
  IF i > Len(combined) THEN <<>>
  ELSE LET key == JSONstringify(combined[i]) IN
       IF key \in seen THEN UnionFilter(combined, i + 1, seen)
       ELSE <<combined[i]>> \o UnionFilter(combined, i + 1, seen \cup {key})

\* a.filter(itemA => b.some(itemB => deepEqual(itemA, itemB)))
RECURSIVE IntersectionFilter(_, _, _)
IntersectionFilter(a, b, i) ==
  IF i > Len(a) THEN <<>>
  ELSE (IF \E j \in 1..Len(b) : deepEqualMerge(a[i], b[j]) THEN <<a[i]>> ELSE <<>>)
         \o IntersectionFilter(a, b, i + 1)

ReplaceArraysKeepBoth(a, b) == a \o b

\* case 'replace': [...b]
ReplaceArrays(a, b) == b

RECURSIVE deepMergeTwo(_, _, _)
RECURSIVE mergeArrays(_, _, _)
RECURSIVE MergeTwoEntries(_, _, _, _)
RECURSIVE DeepArrayMerge(_, _, _)

\* the loop of deepMergeTwo over Object.entries(sourceClone)
MergeTwoEntries(result, entries, i, options) ==
  IF i > Len(entries) THEN Merged(result)
  ELSE LET key == entries[i].k
           sourceValue == entries[i].v
       IN IF HasKey(result, key)
          THEN LET sub == deepMergeTwo(GetProp(result, key), sourceValue, options) IN
               IF sub.err # "" THEN sub
               ELSE MergeTwoEntries(SetProp(result, key, sub.v), entries, i + 1, options)
          ELSE MergeTwoEntries(SetProp(result, key, sourceValue), entries, i + 1, options)

\* deepMergeTwo(target, source, options)
deepMergeTwo(target, source, options) ==
  IF IsNullish(source) THEN Merged(target)
  ELSE IF IsNullish(target) THEN Merged(deepClone(source))
  ELSE IF getValueType(target) # getValueType(source) THEN Merged(deepClone(source))
  ELSE IF getValueType(target) = "array"
  THEN mergeArrays(Elems(target), Elems(source),
                   IF options.arrayStrategy = "" THEN "concat" ELSE options.arrayStrategy)
  ELSE IF getValueType(target) = "object"
  THEN MergeTwoEntries(deepClone(target), deepClone(source).c, 1, options)
  ELSE Merged(deepClone(source))

\* case 'deep' of mergeArrays: element by element
DeepArrayMerge(a, b, i) ==
  LET maxLength == IF Len(a) > Len(b) THEN Len(a) ELSE Len(b) IN
  IF i > maxLength THEN Merged(JArr(<<>>))
  ELSE LET item == IF i > Len(a) THEN Merged(deepClone(b[i]))
                   ELSE IF i > Len(b) THEN Merged(deepClone(a[i]))
                   ELSE IF IsObject(a[i]) /\ IsObject(b[i])
                   THEN deepMergeTwo(a[i], b[i], [arrayStrategy |-> ""])
                   ELSE Merged(deepClone(b[i]))
           rest == DeepArrayMerge(a, b, i + 1)
       IN IF item.err # "" THEN item
          ELSE IF rest.err # "" THEN rest
          ELSE Merged(JArr(<<item.v>> \o Elems(rest.v)))

\* mergeArrays(a, b, strategy) on the elements of two arrays
mergeArrays(a, b, strategy) ==
  CASE strategy = "concat" -> Merged(JArr(a \o b))
    [] strategy = "union" -> Merged(JArr(UnionFilter(a \o b, 1, {})))
    [] strategy = "intersection" -> Merged(JArr(IntersectionFilter(a, b, 1)))
    [] strategy = "replace" -> Merged(JArr(ReplaceArrays(a, b)))
    [] strategy = "deep" -> DeepArrayMerge(a, b, 1)
    [] OTHER -> MergeError("Unknown array merge strategy", <<>>, JUndef, JUndef)

JsonMergeOptions(strategy, arrayStrategy, conflictStrategy, maxDepth) ==
  [strategy |-> strategy, arrayStrategy |-> arrayStrategy,
   conflictStrategy |-> conflictStrategy, customMerge |-> "", maxDepth |-> maxDepth]

\* customMerge(path, target, source): no hook is installed in the explored
\* calls, so the result is undefined and the default handling goes on
customMergeResult(options, p, target, source) == JUndef

NewPathKeyOnly(p, key) == key

\* newPath = path ? `${path}.${key}` : key
NewPath(p, key) == IF p # <<>> THEN p \o <<".">> \o key ELSE key

\* { ...target, ...source }
RECURSIVE Spread(_, _, _)
Spread(result, entries, i) ==
  IF i > Len(entries) THEN result
  ELSE Spread(SetProp(result, entries[i].k, entries[i].v), entries, i + 1)

\* the outcome of a conflict between target and source under conflictStrategy
ResolveConflict(options, kind, p, target, source, clone) ==
  CASE options.conflictStrategy = "target" -> Merged(IF clone THEN deepClone(target) ELSE target)
    [] options.conflictStrategy = "source" -> Merged(IF clone THEN deepClone(source) ELSE source)
    [] options.conflictStrategy = "throw" -> MergeError(kind, p, target, source)
    [] options.conflictStrategy = "priority" ->
         Merged(IF ~IsNullish(source) THEN (IF clone THEN deepClone(source) ELSE source)
                ELSE (IF clone THEN deepClone(target) ELSE target))
    [] OTHER -> Merged(IF clone THEN deepClone(source) ELSE source)

RECURSIVE deepMergeRecursive(_, _, _, _, _)
RECURSIVE MergeEntries(_, _, _, _, _, _)

\* the loop of deepMergeRecursive over Object.entries(sourceClone)
MergeEntries(result, entries, i, options, p, depth) ==
  IF i > Len(entries) THEN Merged(result)
  ELSE LET key == entries[i].k
           sourceValue == entries[i].v
           newPath == NewPath(p, key)
       IN IF HasKey(result, key)
          THEN LET sub == deepMergeRecursive(GetProp(result, key), sourceValue,
                                             options, newPath, depth + 1)
               IN IF sub.err # "" THEN sub
                  ELSE MergeEntries(SetProp(result, key, sub.v), entries, i + 1,
                                    options, p, depth)
          ELSE MergeEntries(SetProp(result, key, sourceValue), entries, i + 1,
                            options, p, depth)

\* deepMergeRecursive(target, source, strategy, arrayStrategy,
\* conflictStrategy, customMerge, path, maxDepth, depth)
deepMergeRecursive(target, source, options, p, depth) ==
  IF depth > options.maxDepth
  THEN MergeError("Maximum merge depth exceeded", p, JUndef, JUndef)
  ELSE IF IsNullish(source) THEN Merged(target)
  ELSE IF IsNullish(target) THEN Merged(deepClone(source))
  ELSE IF options.customMerge # "" /\ customMergeResult(options, p, target, source) # JUndef
  THEN Merged(customMergeResult(options, p, target, source))
  ELSE IF getValueType(target) # getValueType(source)
  THEN ResolveConflict(options, "Type mismatch", p, target, source, TRUE)
  ELSE IF getValueType(target) = "array"
  THEN mergeArrays(Elems(target), Elems(source), options.arrayStrategy)
  ELSE IF getValueType(target) = "object"
  THEN IF options.strategy = "shallow"
       THEN Merged(Spread(JObj(target.c), source.c, 1))
       ELSE MergeEntries(deepClone(target), deepClone(source).c, 1, options, p, depth)
  ELSE IF ~StrictEq(target, source)
  THEN ResolveConflict(options, "Value conflict", p, target, source, FALSE)
  ELSE Merged(target)

\* deepMerge(target, source, options)
deepMerge(target, source, options) ==
  deepMergeRecursive(deepClone(target), deepClone(source), options, <<>>, 0)

\* Who owns an object the merge assigns into: the caller ("target") or the
\* call itself ("call", an object the call has built)
CloneOwnerShared(owner) == owner

\* deepClone builds its containers anew (value.map, cloned = {}): what it
\* returns belongs to the call, whoever owns the value it clones
CloneOwner(owner) == "call"

\* the owners of the objects deepMergeTwo assigns into (result[key] = ...,
\* result being deepClone(target)), target being owned by owner
RECURSIVE TwoAssigned(_, _, _)
TwoAssigned(target, source, owner) ==
  IF IsNullish(source) \/ IsNullish(target) THEN {}
  ELSE IF getValueType(target) # getValueType(source) THEN {}
  ELSE IF getValueType(target) = "object" /\ source.c # <<>>
  THEN {CloneOwner(owner)}
         \cup UNION {TwoAssigned(GetProp(target, source.c[i].k), source.c[i].v, CloneOwner(owner)) :
                       i \in {j \in 1..Len(source.c) : HasKey(target, source.c[j].k)}}
  ELSE {}

\* the owners of the objects mergeArrays assigns into: only case 'deep'
\* assigns (result.push on an array of its own, and deepMergeTwo)
ArrayAssigned(a, b, strategy, owner) ==
  IF strategy = "deep" /\ (a # <<>> \/ b # <<>>)
  THEN {"call"}
         \cup UNION {TwoAssigned(a[i], b[i], owner) :
                       i \in {j \in 1..Len(a) : j <= Len(b) /\ IsObject(a[j]) /\ IsObject(b[j])}}
  ELSE {}

RECURSIVE Assigned(_, _, _, _, _)
RECURSIVE EntriesAssigned(_, _, _, _, _, _)

\* result[key] = merged happens only when the merge of the key returned
EntriesAssignedNext(sub, result, entries, i, options, depth, owner) ==
  IF sub.err # "" THEN {}
  ELSE {owner} \cup EntriesAssigned(result, entries, i + 1, options, depth, owner)

\* the assignments of the loop of deepMergeRecursive over
\* Object.entries(sourceClone), result being owned by owner
EntriesAssigned(result, entries, i, options, depth, owner) ==
  IF i > Len(entries) THEN {}
  ELSE IF HasKey(result, entries[i].k)
  THEN Assigned(GetProp(result, entries[i].k), entries[i].v, options, depth + 1, owner)
         \cup EntriesAssignedNext(
                deepMergeRecursive(GetProp(result, entries[i].k), entries[i].v,
                                   options, <<>>, depth + 1),
                result, entries, i, options, depth, owner)
  ELSE {owner} \cup EntriesAssigned(result, entries, i + 1, options, depth, owner)

\* the owners of the objects deepMergeRecursive assigns into, its target
\* being owned by owner: const result = deepClone(target); result[key] = ...
Assigned(target, source, options, depth, owner) ==
  IF depth > options.maxDepth THEN {}
  ELSE IF IsNullish(source) \/ IsNullish(target) THEN {}
  ELSE IF getValueType(target) # getValueType(source) THEN {}
  ELSE IF getValueType(target) = "array"
  THEN ArrayAssigned(Elems(target), Elems(source), options.arrayStrategy, owner)
  ELSE IF getValueType(target) = "object" /\ options.strategy # "shallow"
  THEN EntriesAssigned(target, source.c, 1, options, depth, CloneOwner(owner))
  ELSE {}

\* the owners of the objects a call of deepMerge assigns into: the
\* recursion is handed deepClone(target), never the caller's target
deepMergeAssigned(target, source, options) ==
  Assigned(target, source, options, 0, CloneOwner("target"))

\* the arguments mergeWithPriority hands to deepMergeRecursive:
\* 'deep', 'concat', 'priority', no customMerge, maxDepth 100
PriorityOptions == JsonMergeOptions("deep", "concat", "priority", DefaultMaxDepth)

RECURSIVE PriorityFold(_, _, _)

PriorityFoldNext(merged, objects, i) ==
  IF merged.err # "" THEN merged ELSE PriorityFold(merged.v, objects, i + 1)

\* for (let i = 1; i < objects.length; i++) result = deepMergeRecursive(result, objects[i], ...)
PriorityFold(result, objects, i) ==
  IF i > Len(objects) THEN Merged(result)
  ELSE PriorityFoldNext(deepMergeRecursive(result, objects[i], PriorityOptions, <<>>, 0),
                        objects, i)

\* result is declared const and assigned in the loop: a build that keeps
\* the declaration ("const") raises TypeError at the first assignment, a
\* build that lowers it to var ("var") goes on
ConstAssignment(build) ==
  [MergeError("Assignment to constant variable", <<>>, JUndef, JUndef) EXCEPT !.err = "TypeError"]

\* mergeWithPriority(...objects) as built with build
mergeWithPriority(objects, build) ==
  IF Len(objects) = 0 THEN Merged(JObj(<<>>))
  ELSE IF Len(objects) = 1 THEN Merged(deepClone(objects[1]))
  ELSE IF build = "const" THEN ConstAssignment(build)
  ELSE PriorityFold(deepClone(objects[1]), objects, 2)

\* what a merge with a resolver returns: the merged value and the paths
\* the resolver has been called with, in the order of the calls
Resolved(v, calls) == [v |-> v, calls |-> calls]

\* resolver(path, targetValue, sourceValue) for the resolvers of the
\* explored calls: one that returns undefined, one that keeps the target's
\* value, one that takes the source's
resolverResult(resolver, p, targetValue, sourceValue) ==
  CASE resolver = "target" -> targetValue
    [] resolver = "source" -> sourceValue
    [] OTHER -> JUndef

\* const resolved = resolver(path, target, source); undefined falls back
\* to deepClone(source)
ResolveWith(resolved, p, source) ==
  Resolved(IF resolved # JUndef THEN resolved ELSE deepClone(source), <<p>>)

RECURSIVE deepMergeRecursiveWithResolver(_, _, _, _)
RECURSIVE ResolverElements(_, _, _, _, _)
RECURSIVE ResolverEntries(_, _, _, _, _, _)

ResolverElementsNext(item, rest) ==
  Resolved(JArr(<<item.v>> \o Elems(rest.v)), item.calls \o rest.calls)

\* the loop over the indices of two arrays
ResolverElements(target, source, resolver, p, i) ==
  LET maxLength == IF Len(target) > Len(source) THEN Len(target) ELSE Len(source) IN
  IF i > maxLength THEN Resolved(JArr(<<>>), <<>>)
  ELSE ResolverElementsNext(
         IF i > Len(target) \/ target[i] = JUndef THEN Resolved(deepClone(source[i]), <<>>)
         ELSE IF i > Len(source) \/ source[i] = JUndef THEN Resolved(deepClone(target[i]), <<>>)
         ELSE deepMergeRecursiveWithResolver(target[i], source[i], resolver,
                                             p \o <<"[">> \o NatChars(i - 1) \o <<"]">>),
         ResolverElements(target, source, resolver, p, i + 1))

ResolverEntriesNext(sub, result, entries, i, resolver, p, calls) ==
  ResolverEntries(SetProp(result, entries[i].k, sub.v), entries, i + 1, resolver, p,
                  calls \o sub.calls)

\* the loop over Object.entries(sourceClone)
ResolverEntries(result, entries, i, resolver, p, calls) ==
  IF i > Len(entries) THEN Resolved(result, calls)
  ELSE IF HasKey(result, entries[i].k)
  THEN ResolverEntriesNext(
         deepMergeRecursiveWithResolver(GetProp(result, entries[i].k), entries[i].v,
                                        resolver, NewPath(p, entries[i].k)),
         result, entries, i, resolver, p, calls)
  ELSE ResolverEntries(SetProp(result, entries[i].k, entries[i].v), entries, i + 1,
                       resolver, p, calls)

\* deepMergeRecursiveWithResolver(target, source, resolver, path, depth)
deepMergeRecursiveWithResolver(target, source, resolver, p) ==
  IF IsNullish(source) THEN Resolved(target, <<>>)
  ELSE IF IsNullish(target) THEN Resolved(deepClone(source), <<>>)
  ELSE IF getValueType(target) # getValueType(source) \/ ~deepEqualMerge(target, source)
  THEN ResolveWith(resolverResult(resolver, p, target, source), p, source)
  ELSE IF getValueType(target) # "array" /\ getValueType(target) # "object"
  THEN Resolved(target, <<>>)
  ELSE IF getValueType(target) = "array"
  THEN ResolverElements(Elems(target), Elems(source), resolver, p, 1)
  ELSE ResolverEntries(deepClone(target), deepClone(source).c, 1, resolver, p, <<>>)

\* mergeWithResolver(target, source, resolver)
mergeWithResolver(target, source, resolver) ==
  deepMergeRecursiveWithResolver(deepClone(target), deepClone(source), resolver, <<>>)

\* one entry of the list checkMergeConflicts returns
Conflict(p, targetValue, sourceValue) ==
  [path |-> p, targetValue |-> targetValue, sourceValue |-> sourceValue]

RECURSIVE checkRecursive(_, _, _)
RECURSIVE CheckKeys(_, _, _, _)

\* for (const key of Object.keys(s)) if (key in t) checkRecursive(t[key], s[key], newPath)
CheckKeys(t, s, p, i) ==
  IF i > Len(s.c) THEN <<>>
  ELSE (IF HasKey(t, s.c[i].k)
        THEN checkRecursive(GetProp(t, s.c[i].k), s.c[i].v, NewPath(p, s.c[i].k))
        ELSE <<>>)
         \o CheckKeys(t, s, p, i + 1)

\* checkRecursive(t, s, path): the conflicts it pushes
checkRecursive(t, s, p) ==
  IF t.t \in {"array", "object"} /\ s.t \in {"array", "object"}
  THEN IF IsArray(t) /\ IsArray(s) THEN <<>>
       ELSE IF ~IsArray(t) /\ ~IsArray(s) THEN CheckKeys(t, s, p, 1)
       ELSE <<Conflict(p, t, s)>>
  ELSE IF t # JUndef /\ s # JUndef /\ ~deepEqualMerge(t, s)
  THEN <<Conflict(p, t, s)>>
  ELSE <<>>

\* checkMergeConflicts(target, source)
checkMergeConflicts(target, source) == checkRecursive(target, source, <<>>)

----------------------------------------------------------------------------
(* Transformations: flattenJson and unflattenJson *)

Transformed(v) == [v |-> v, err |-> "", msg |-> <<>>]
TransformError(msg) == [v |-> JUndef, err |-> "JsonTransformError", msg |-> Chars(msg)]

\* Object.assign(result, flattened)
RECURSIVE AssignAll(_, _, _)
AssignAll(result, flattened, i) ==
  IF i > Len(flattened.c) THEN result
  ELSE AssignAll(SetProp(result, flattened.c[i].k, flattened.c[i].v), flattened, i + 1)

\* flattenJson(json, delimiter, prefix): a nested plain object is replaced
\* by its own flattened entries under prefix + delimiter + key, every other
\* value is kept under that key
RECURSIVE flattenJson(_, _, _)
RECURSIVE FlattenEntries(_, _, _, _, _)
FlattenEntries(doc, delimiter, prefix, i, result) ==
  IF i > Len(doc.c) THEN Transformed(result)
  ELSE LET newKey == IF prefix # <<>> THEN prefix \o delimiter \o doc.c[i].k
                     ELSE doc.c[i].k
       IN IF IsObject(doc.c[i].v)
          THEN FlattenEntries(doc, delimiter, prefix, i + 1,
                              AssignAll(result, flattenJson(doc.c[i].v, delimiter, newKey).v, 1))
          ELSE FlattenEntries(doc, delimiter, prefix, i + 1, SetProp(result, newKey, doc.c[i].v))
flattenJson(doc, delimiter, prefix) ==
  IF ~IsObject(doc) THEN TransformError("Input must be a non-null object")
  ELSE FlattenEntries(doc, delimiter, prefix, 1, JObj(<<>>))

\* key.split(delimiter), for a delimiter that is not empty
RECURSIVE Split(_, _, _, _)
Split(str, delimiter, part, i) ==
  IF i > Len(str) THEN <<part>>
  ELSE IF /\ i + Len(delimiter) - 1 <= Len(str)
          /\ SubSeq(str, i, i + Len(delimiter) - 1) = delimiter
  THEN <<part>> \o Split(str, delimiter, <<>>, i + Len(delimiter))
  ELSE Split(str, delimiter, Append(part, str[i]), i + 1)

\* current[part] = v on an object or an array
SetMember(current, part, v) ==
  IF IsArray(current)
  THEN (IF IsIntText(part) /\ part[1] # "-" /\ NumChars(ParseInt(part)) = part
        THEN ArrSet(current, ParseInt(part), v)
        ELSE [current EXCEPT !.x = SetEntry(current.x, part, v)])
  ELSE SetProp(current, part, v)

\* the inner loop of unflattenJson over the parts of one key: the value is
\* set at the last part, and a part before it that holds no object gets {}
RECURSIVE SetParts(_, _, _)
SetParts(current, keys, v) ==
  IF Len(keys) = 1 THEN SetMember(current, keys[1], v)
  ELSE LET held == Member(current, keys[1])
           next == IF ~Truthy(held) \/ held.t \notin {"object", "array"}
                   THEN JObj(<<>>) ELSE held
       IN SetMember(current, keys[1], SetParts(next, Tail(keys), v))

RECURSIVE UnflattenEntries(_, _, _, _)
UnflattenEntries(doc, delimiter, i, result) ==
  IF i > Len(doc.c) THEN result
  ELSE UnflattenEntries(doc, delimiter, i + 1,
                        SetParts(result, Split(doc.c[i].k, delimiter, <<>>, 1), doc.c[i].v))

\* unflattenJson(json, delimiter)
unflattenJson(doc, delimiter) ==
  IF ~IsObject(doc) THEN TransformError("Input must be a non-null object")
  ELSE Transformed(UnflattenEntries(doc, delimiter, 1, JObj(<<>>)))

----------------------------------------------------------------------------
(* Compare engine *)

\* getType: 'null', 'array', 'object' or typeof value
getType(v) == v.t

\* one JsonDifference; an absent detail is the empty sequence
Difference(p, type, a, b, detail) ==
  [path |-> p, type |-> type, valueA |-> a, valueB |-> b, detail |-> detail]

\* what deepCompare hands back: its boolean and the differences list it
\* has pushed to
Compared(equal, differences) == [equal |-> equal, differences |-> differences]

\* `${path}[${i}]`
ElementPath(p, i) == p \o <<"[">> \o NatChars(i) \o <<"]">>

\* path ? `${path}.${key}` : key
PropertyPath(p, key) == IF p # <<>> THEN p \o <<".">> \o key ELSE key

AllKeysOfAOnly(a, b) == ObjectKeys(a)

\* new Set([...Object.keys(a), ...Object.keys(b)]) in iteration order
AllKeys(a, b) ==
  LET keysB == ObjectKeys(b)
      fresh == SelectSeq(keysB, LAMBDA k : ~HasKey(a, k))
  IN ObjectKeys(a) \o fresh

RECURSIVE deepCompare(_, _, _, _)
RECURSIVE CompareElements(_, _, _, _, _)
RECURSIVE CompareProperties(_, _, _, _, _, _)

\* the element loop of compareArrays from index i (0-based) on
CompareElements(a, b, p, i, acc) ==
  IF i >= (IF Len(a.c) > Len(b.c) THEN Len(a.c) ELSE Len(b.c)) THEN acc
  ELSE IF i >= Len(a.c)
  THEN CompareElements(a, b, p, i + 1,
         Compared(FALSE, Append(acc.differences,
           Difference(ElementPath(p, i), "missing-in-a", JUndef, ArrGet(b, i), <<>>))))
  ELSE IF i >= Len(b.c)
  THEN CompareElements(a, b, p, i + 1,
         Compared(FALSE, Append(acc.differences,
           Difference(ElementPath(p, i), "missing-in-b", ArrGet(a, i), JUndef, <<>>))))
  ELSE LET element == deepCompare(ArrGet(a, i), ArrGet(b, i), ElementPath(p, i),
                                  acc.differences)
       IN CompareElements(a, b, p, i + 1,
            Compared(acc.equal /\ element.equal, element.differences))

\* compareArrays(a, b, path, differences)
compareArrays(a, b, p, differences) ==
  IF Len(a.c) # Len(b.c)
  THEN CompareElements(a, b, p, 0,
         Compared(FALSE, Append(differences,
           Difference(p, "length-mismatch", JNum(Len(a.c)), JNum(Len(b.c)), <<>>))))
  ELSE CompareElements(a, b, p, 0, Compared(TRUE, differences))

\* the key loop of compareObjects from the i-th key of allKeys on
CompareProperties(a, b, p, allKeys, i, acc) ==
  IF i > Len(allKeys) THEN acc
  ELSE LET key == allKeys[i]
           propertyPath == PropertyPath(p, key)
       IN IF ~HasKey(a, key)
          THEN CompareProperties(a, b, p, allKeys, i + 1,
                 Compared(FALSE, Append(acc.differences,
                   Difference(propertyPath, "missing-in-a", JUndef, GetProp(b, key), <<>>))))
          ELSE IF ~HasKey(b, key)
          THEN CompareProperties(a, b, p, allKeys, i + 1,
                 Compared(FALSE, Append(acc.differences,
                   Difference(propertyPath, "missing-in-b", GetProp(a, key), JUndef, <<>>))))
          ELSE LET property == deepCompare(GetProp(a, key), GetProp(b, key),
                                           propertyPath, acc.differences)
               IN CompareProperties(a, b, p, allKeys, i + 1,
                    Compared(acc.equal /\ property.equal, property.differences))

\* compareObjects(a, b, path, differences)
compareObjects(a, b, p, differences) ==
  CompareProperties(a, b, p, AllKeys(a, b), 1, Compared(TRUE, differences))

\* deepCompare(a, b, path, differences)
deepCompare(a, b, p, differences) ==
  IF getType(a) # getType(b)
  THEN Compared(FALSE, Append(differences,
         Difference(p, "type-mismatch", a, b,
                    <<"Type A: ", getType(a), ", Type B: ", getType(b)>>)))
  ELSE IF IsNullish(a) \/ IsNullish(b)
  THEN Compared(TRUE, differences)
  ELSE IF getType(a) = "array" THEN compareArrays(a, b, p, differences)
  ELSE IF getType(a) = "object" THEN compareObjects(a, b, p, differences)
  ELSE IF ~StrictEq(a, b)
  THEN Compared(FALSE, Append(differences, Difference(p, "value-mismatch", a, b, <<>>)))
  ELSE Compared(TRUE, differences)

\* compareJson(a, b): equal and differences of the JsonCompareResult (the
\* similarity ratio is a number computed apart and is left out)
compareJson(a, b) == deepCompare(a, b, <<>>, <<>>)

\* Math.abs(a - b) of two numbers
AbsDifference(a, b) == IF a.n > b.n THEN a.n - b.n ELSE b.n - a.n

\* deepCompareWithTolerance(a, b, path, differences, tolerance)
deepCompareWithTolerance(a, b, p, differences, tolerance) ==
  IF getType(a) # getType(b)
  THEN Compared(FALSE, Append(differences, Difference(p, "type-mismatch", a, b, <<>>)))
  ELSE IF getType(a) = "number" /\ getType(b) = "number"
  THEN IF AbsDifference(a, b) > tolerance
       THEN Compared(FALSE, Append(differences,
              Difference(p, "value-mismatch", a, b,
                         <<"Difference: ", NumChars(AbsDifference(a, b)),
                           ", Tolerance: ", NumChars(tolerance)>>)))
       ELSE Compared(TRUE, differences)
  ELSE deepCompare(a, b, p, differences)

\* compareWithTolerance(a, b, tolerance): equal and differences of the
\* JsonCompareResult
compareWithTolerance(a, b, tolerance) ==
  deepCompareWithTolerance(a, b, <<>>, <<>>, tolerance)

\* deepEqual(a, b) of the compare engine: deepCompare(a, b) on a list of
\* its own
deepEqualCompare(a, b) == deepCompare(a, b, <<>>, <<>>).equal

\* a ratio of two integers, as similarity is
Ratio(num, den) == [num |-> num, den |-> den]

\* what compareArraysUnordered returns, or the JsonCompareError it raises
Unordered(equal, differences, similarity) ==
  [equal |-> equal, differences |-> differences, similarity |-> similarity,
   err |-> "", msg |-> ""]

\* the first j from j on with deepEqual(item, bCopy[j]), 0 when there is none
RECURSIVE FirstMatch(_, _, _)
FirstMatch(item, bCopy, j) ==
  IF j > Len(bCopy) THEN 0
  ELSE IF deepEqualCompare(item, bCopy[j]) THEN j
  ELSE FirstMatch(item, bCopy, j + 1)

RECURSIVE MatchElements(_, _, _, _, _)

MatchElementsNext(j, a, bCopy, i, matches, differences) ==
  IF j > 0
  THEN MatchElements(a, RemoveAt(bCopy, j), i + 1, matches + 1, differences)
  ELSE MatchElements(a, bCopy, i + 1, matches,
                     Append(differences,
                            Difference(<<"[">> \o NatChars(i - 1) \o <<"]">>,
                                       "missing-element", a[i], JUndef, <<>>)))

\* the loop over a: each element takes the first deep-equal element left
\* in bCopy, or is pushed as 'missing-element'
MatchElements(a, bCopy, i, matches, differences) ==
  IF i > Len(a) THEN [bCopy |-> bCopy, matches |-> matches, differences |-> differences]
  ELSE MatchElementsNext(FirstMatch(a[i], bCopy, 1), a, bCopy, i, matches, differences)

\* for (const extra of bCopy) differences.push({path: '', type: 'extra-element', ...})
ExtraElements(bCopy) ==
  [j \in 1..Len(bCopy) |-> Difference(<<>>, "extra-element", JUndef, bCopy[j], <<>>)]

\* the result once the loop over a is done
UnorderedResult(matched, a) ==
  Unordered(matched.differences \o ExtraElements(matched.bCopy) = <<>>,
            matched.differences \o ExtraElements(matched.bCopy),
            IF Len(a) > 0 THEN Ratio(matched.matches, Len(a)) ELSE Ratio(1, 1))

\* compareArraysUnordered(a, b)
compareArraysUnordered(a, b) ==
  IF ~IsArray(a) \/ ~IsArray(b)
  THEN [Unordered(FALSE, <<>>, Ratio(0, 1)) EXCEPT
          !.err = "JsonCompareError", !.msg = "Both arguments must be arrays"]
  ELSE IF Len(a.c) # Len(b.c)
  THEN Unordered(FALSE,
                 <<Difference(<<>>, "length-mismatch", JNum(Len(a.c)), JNum(Len(b.c)), <<>>)>>,
                 Ratio(0, 1))
  ELSE UnorderedResult(MatchElements(Elems(a), Elems(b), 1, 0, <<>>), Elems(a))

----------------------------------------------------------------------------
(* Validate engine.  The regular-expression keywords (format, pattern) are *)
(* not modelled: the schemas explored carry neither.  Numbers are          *)
(* integers, and a bound of a schema is a number.                          *)

RECURSIVE JSString(_)
RECURSIVE JoinFrom(_, _, _)

\* Array.prototype.join: null and undefined elements give the empty string
JoinFrom(es, sep, i) ==
  IF i > Len(es) THEN <<>>
  ELSE (IF i > 1 THEN sep ELSE <<>>)
         \o (IF IsNullish(es[i]) THEN <<>> ELSE JSString(es[i]))
         \o JoinFrom(es, sep, i + 1)

\* String(v), as a template literal `${v}` converts
JSString(v) ==
  CASE v.t = "undefined" -> Chars("undefined")
    [] v.t = "null" -> Chars("null")
    [] v.t = "boolean" -> IF v.n = 1 THEN Chars("true") ELSE Chars("false")
    [] v.t = "number" -> NumChars(v.n)
    [] v.t = "string" -> v.s
    [] v.t = "array" -> JoinFrom(Elems(v), <<",">>, 1)
    [] OTHER -> Chars("[object Object]")

\* schema.name
Field(sch, name) == GetProp(sch, Chars(name))

\* arr.includes(v)
Includes(es, v) == \E i \in 1..Len(es) : StrictEq(es[i], v)

\* getTypeName: 'null', 'array' or typeof value
getTypeName(v) == Chars(v.t)

\* createError(path, message, value, expected)
createError(p, message, v, expected) ==
  [path |-> p, message |-> message, value |-> v, expected |-> expected]

PushAllStopAtFirst(errors, more) == IF errors # <<>> THEN errors ELSE errors \o more

\* errors.push(...more)
PushAll(errors, more) == errors \o more

\* `${op} ${bound}`
Bound(op, bound) == JStr(Chars(op) \o <<" ">> \o JSString(bound))

RECURSIVE validateAgainstSchema(_, _, _)
RECURSIVE UniqueItemErrors(_, _, _, _)
RECURSIVE ItemErrors(_, _, _, _)
RECURSIVE RequiredErrors(_, _, _, _)
RECURSIVE PropertyErrors(_, _, _, _)
RECURSIVE AdditionalErrors(_, _, _, _)

\* the uniqueItems loop from index i (0-based) on, seen the keys so far
UniqueItemErrors(array, basePath, i, seen) ==
  IF i >= Len(array.c) THEN <<>>
  ELSE LET key == JSONstringify(ArrGet(array, i)) IN
       (IF key \in seen
        THEN <<createError(ElementPath(basePath, i), Chars("Duplicate item found"),
                           ArrGet(array, i), JStr(Chars("unique value")))>>
        ELSE <<>>)
         \o UniqueItemErrors(array, basePath, i + 1, seen \cup {key})

\* the items loop from index i (0-based) on
ItemErrors(array, items, basePath, i) ==
  IF i >= Len(array.c) THEN <<>>
  ELSE PushAll(validateAgainstSchema(ArrGet(array, i), items, ElementPath(basePath, i)),
               ItemErrors(array, items, basePath, i + 1))

\* validateArrayAgainstSchema(array, schema, basePath)
validateArrayAgainstSchema(array, sch, basePath) ==
  LET length == Len(array.c)
      minItems == Field(sch, "minItems")
      maxItems == Field(sch, "maxItems")
      tooFew ==
        IF minItems # JUndef /\ length < minItems.n
        THEN <<createError(basePath,
                 Chars("Array has ") \o NatChars(length)
                   \o Chars(" items, minimum required is ") \o JSString(minItems),
                 JNum(length), Bound(">=", minItems))>>
        ELSE <<>>
      tooMany ==
        IF maxItems # JUndef /\ length > maxItems.n
        THEN <<createError(basePath,
                 Chars("Array has ") \o NatChars(length)
                   \o Chars(" items, maximum allowed is ") \o JSString(maxItems),
                 JNum(length), Bound("<=", maxItems))>>
        ELSE <<>>
      duplicates ==
        IF Truthy(Field(sch, "uniqueItems"))
        THEN UniqueItemErrors(array, basePath, 0, {})
        ELSE <<>>
      items ==
        IF Truthy(Field(sch, "items"))
        THEN ItemErrors(array, Field(sch, "items"), basePath, 0)
        ELSE <<>>
  IN PushAll(tooFew \o tooMany \o duplicates, items)

\* the required loop from the i-th name on
RequiredErrors(obj, required, basePath, i) ==
  IF i > Len(required) THEN <<>>
  ELSE LET prop == JSString(required[i]) IN
       (IF ~HasKey(obj, prop)
        THEN <<createError(basePath \o <<".">> \o prop,
                 Chars("Required property \"") \o prop \o Chars("\" is missing"),
                 JUndef, JStr(Chars("present")))>>
        ELSE <<>>)
         \o RequiredErrors(obj, required, basePath, i + 1)

\* the properties loop from the i-th entry of schema.properties on
PropertyErrors(obj, properties, basePath, i) ==
  IF i > Len(ObjectKeys(properties)) THEN <<>>
  ELSE LET prop == ObjectKeys(properties)[i] IN
       PushAll(IF HasKey(obj, prop)
               THEN validateAgainstSchema(GetProp(obj, prop), Member(properties, prop),
                                          basePath \o <<".">> \o prop)
               ELSE <<>>,
               PropertyErrors(obj, properties, basePath, i + 1))

\* the additionalProperties loop from the i-th key of the object on
AdditionalErrors(obj, allowedProps, basePath, i) ==
  IF i > Len(obj.c) THEN <<>>
  ELSE LET prop == obj.c[i].k IN
       (IF ~InSeq(allowedProps, prop)
        THEN <<createError(basePath \o <<".">> \o prop,
                 Chars("Additional property \"") \o prop \o Chars("\" is not allowed"),
                 obj.c[i].v, JStr(Chars("undefined")))>>
        ELSE <<>>)
         \o AdditionalErrors(obj, allowedProps, basePath, i + 1)

\* validateObjectAgainstSchema(obj, schema, basePath)
validateObjectAgainstSchema(obj, sch, basePath) ==
  LET required == Field(sch, "required")
      properties == Field(sch, "properties")
      propCount == Len(obj.c)
      minProperties == Field(sch, "minProperties")
      maxProperties == Field(sch, "maxProperties")
      missing ==
        IF Truthy(required) /\ IsArray(required)
        THEN RequiredErrors(obj, Elems(required), basePath, 1)
        ELSE <<>>
      declared ==
        IF Truthy(properties) /\ properties.t \in {"object", "array"}
        THEN PropertyErrors(obj, properties, basePath, 1)
        ELSE <<>>
      additional ==
        IF Field(sch, "additionalProperties") = JBool(FALSE)
        THEN AdditionalErrors(obj,
               IF Truthy(properties) THEN ObjectKeys(properties) ELSE <<>>, basePath, 1)
        ELSE <<>>
      tooFew ==
        IF minProperties # JUndef /\ propCount < minProperties.n
        THEN <<createError(basePath,
                 Chars("Object has ") \o NatChars(propCount)
                   \o Chars(" properties, minimum required is ") \o JSString(minProperties),
                 JNum(propCount), Bound(">=", minProperties))>>
        ELSE <<>>
      tooMany ==
        IF maxProperties # JUndef /\ propCount > maxProperties.n
        THEN <<createError(basePath,
                 Chars("Object has ") \o NatChars(propCount)
                   \o Chars(" properties, maximum allowed is ") \o JSString(maxProperties),
                 JNum(propCount), Bound("<=", maxProperties))>>
        ELSE <<>>
  IN PushAll(missing, declared) \o additional \o tooFew \o tooMany

Abs(n) == IF n < 0 THEN 0 - n ELSE n

\* value % multipleOf !== 0 (the remainder by 0 is NaN)
NotMultipleOf(n, m) == m = 0 \/ Abs(n) % Abs(m) # 0

\* one check of a number against a bound of the schema
NumericError(failed, basePath, v, message, op, bound) ==
  IF bound # JUndef /\ failed
  THEN <<createError(basePath,
           Chars("Value ") \o JSString(v) \o Chars(message) \o JSString(bound),
           v, Bound(op, bound))>>
  ELSE <<>>

\* the check of value.length against minLength
MinLengthError(v, minLength, basePath) ==
  IF minLength # JUndef /\ Len(v.s) < minLength.n
  THEN <<createError(basePath,
           Chars("String length ") \o NatChars(Len(v.s))
             \o Chars(" is less than minimum ") \o JSString(minLength),
           JNum(Len(v.s)), Bound(">=", minLength))>>
  ELSE <<>>

\* validatePrimitiveAgainstSchema(value, schema, basePath)
validatePrimitiveAgainstSchema(v, sch, basePath) ==
  LET enum == Field(sch, "enum")
      const == Field(sch, "const")
      minimum == Field(sch, "minimum")
      exclusiveMinimum == Field(sch, "exclusiveMinimum")
      maximum == Field(sch, "maximum")
      exclusiveMaximum == Field(sch, "exclusiveMaximum")
      multipleOf == Field(sch, "multipleOf")
      minLength == Field(sch, "minLength")
      maxLength == Field(sch, "maxLength")
      notInEnum ==
        IF Truthy(enum) /\ IsArray(enum) /\ ~Includes(Elems(enum), v)
        THEN <<createError(basePath,
                 Chars("Value \"") \o JSString(v) \o Chars("\" is not in allowed values: ")
                   \o JoinFrom(Elems(enum), Chars(", "), 1),
                 v, enum)>>
        ELSE <<>>
      notConst ==
        IF const # JUndef /\ ~StrictEq(v, const)
        THEN <<createError(basePath,
                 Chars("Value \"") \o JSString(v) \o Chars("\" does not match constant \"")
                   \o JSString(const) \o Chars("\""),
                 v, const)>>
        ELSE <<>>
      numeric ==
        IF v.t = "number"
        THEN NumericError(v.n < minimum.n, basePath, v, " is less than minimum ", ">=", minimum)
               \o NumericError(v.n <= exclusiveMinimum.n, basePath, v,
                               " is not greater than ", ">", exclusiveMinimum)
               \o NumericError(v.n > maximum.n, basePath, v, " exceeds maximum ", "<=", maximum)
               \o NumericError(v.n >= exclusiveMaximum.n, basePath, v,
                               " is not less than ", "<", exclusiveMaximum)
               \o NumericError(NotMultipleOf(v.n, multipleOf.n), basePath, v,
                               " is not a multiple of ", "multiple of", multipleOf)
        ELSE <<>>
      lengths ==
        IF v.t = "string"
        THEN MinLengthError(v, minLength, basePath)
               \o (IF maxLength # JUndef /\ Len(v.s) > maxLength.n
                   THEN <<createError(basePath,
                            Chars("String length ") \o NatChars(Len(v.s))
                              \o Chars(" exceeds maximum ") \o JSString(maxLength),
                            JNum(Len(v.s)), Bound("<=", maxLength))>>
                   ELSE <<>>)
        ELSE <<>>
      again == IF v.t = "string" THEN MinLengthError(v, minLength, basePath) ELSE <<>>
  IN notInEnum \o notConst \o numeric \o lengths \o again

\* validateAgainstSchema(json, schema, basePath)
validateAgainstSchema(doc, sch, basePath) ==
  LET type == Field(sch, "type")
      actualType == getTypeName(doc)
      expectedTypes == IF IsArray(type) THEN Elems(type) ELSE <<type>>
  IN IF Truthy(type) /\ ~Includes(expectedTypes, JStr(actualType))
     THEN <<createError(basePath,
              Chars("Type \"") \o actualType \o Chars("\" does not match expected type(s): ")
                \o JoinFrom(expectedTypes, Chars(", "), 1),
              doc, JArr(expectedTypes))>>
     ELSE IF IsArray(doc) THEN validateArrayAgainstSchema(doc, sch, basePath)
     ELSE IF doc.t = "object" THEN validateObjectAgainstSchema(doc, sch, basePath)
     ELSE validatePrimitiveAgainstSchema(doc, sch, basePath)

\* validateSchema(json, schema)
validateSchema(doc, sch) ==
  LET errors == validateAgainstSchema(doc, sch, <<>>)
  IN [valid |-> errors = <<>>, errors |-> errors]

\* is the value a plain object: typeof json === 'object' && json !== null
\* && !Array.isArray(json)
IsPlainObject(v) == v.t = "object"

\* checkConstraint(value, constraint); function and RegExp constraints and
\* the pattern of a constraint object are not JSON and are not modelled
checkConstraint(v, constraint) ==
  IF IsNullish(constraint) THEN TRUE
  ELSE IF IsArray(constraint) THEN Includes(Elems(constraint), v)
  ELSE IF constraint.t = "object"
  THEN LET min == Field(constraint, "min")
           max == Field(constraint, "max")
       IN /\ ~(min # JUndef /\ v.n < min.n)
          /\ ~(max # JUndef /\ v.n > max.n)
  ELSE StrictEq(v, constraint)

RECURSIVE RequiredFieldErrors(_, _, _)
RECURSIVE AllowedFieldErrors(_, _, _)
RECURSIVE TypeConstraintErrors(_, _, _)
RECURSIVE ValueConstraintErrors(_, _, _)

\* the requiredFields loop of validateJson from the i-th field on
RequiredFieldErrors(doc, fields, i) ==
  IF i > Len(fields) THEN <<>>
  ELSE LET field == JSString(fields[i]) IN
       (IF ~HasKey(doc, field)
        THEN <<createError(field,
                 Chars("Required field \"") \o field \o Chars("\" is missing"),
                 JUndef, JStr(Chars("present")))>>
        ELSE <<>>)
         \o RequiredFieldErrors(doc, fields, i + 1)

\* the allowedFields loop of validateJson from the i-th key of the object on
AllowedFieldErrors(doc, allowedFields, i) ==
  IF i > Len(doc.c) THEN <<>>
  ELSE LET field == doc.c[i].k IN
       (IF ~Includes(allowedFields, JStr(field))
        THEN <<createError(field,
                 Chars("Field \"") \o field \o Chars("\" is not allowed"),
                 doc.c[i].v, JStr(Chars("undefined")))>>
        ELSE <<>>)
         \o AllowedFieldErrors(doc, allowedFields, i + 1)

\* the typeConstraints loop of validateJson from the i-th entry on
TypeConstraintErrors(doc, constraints, i) ==
  IF i > Len(ObjectKeys(constraints)) THEN <<>>
  ELSE LET field == ObjectKeys(constraints)[i]
           expectedType == Member(constraints, field)
           actualType == getTypeName(GetProp(doc, field))
       IN (IF HasKey(doc, field) /\ ~StrictEq(JStr(actualType), expectedType)
           THEN <<createError(field,
                    Chars("Field \"") \o field \o Chars("\" has type \"") \o actualType
                      \o Chars("\", expected \"") \o JSString(expectedType) \o Chars("\""),
                    GetProp(doc, field), expectedType)>>
           ELSE <<>>)
            \o TypeConstraintErrors(doc, constraints, i + 1)

\* the valueConstraints loop of validateJson from the i-th entry on
ValueConstraintErrors(doc, constraints, i) ==
  IF i > Len(ObjectKeys(constraints)) THEN <<>>
  ELSE LET field == ObjectKeys(constraints)[i]
           constraint == Member(constraints, field)
           v == GetProp(doc, field)
       IN (IF HasKey(doc, field) /\ ~checkConstraint(v, constraint)
           THEN <<createError(field,
                    Chars("Field \"") \o field \o Chars("\" value \"") \o JSString(v)
                      \o Chars("\" does not meet constraint"),
                    v, constraint)>>
           ELSE <<>>)
            \o ValueConstraintErrors(doc, constraints, i + 1)

\* validateJson(json, options), options holding schema, requiredFields,
\* allowedFields, typeConstraints and valueConstraints
validateJson(doc, options) ==
  LET sch == Field(options, "schema")
      requiredFields == Field(options, "requiredFields")
      allowedFields == Field(options, "allowedFields")
      typeConstraints == Field(options, "typeConstraints")
      valueConstraints == Field(options, "valueConstraints")
      errors ==
        PushAll(<<>>, IF Truthy(sch) THEN validateAgainstSchema(doc, sch, <<>>) ELSE <<>>)
          \o (IF Truthy(requiredFields) /\ IsArray(requiredFields) /\ IsPlainObject(doc)
              THEN RequiredFieldErrors(doc, Elems(requiredFields), 1) ELSE <<>>)
          \o (IF Truthy(allowedFields) /\ IsArray(allowedFields) /\ IsPlainObject(doc)
              THEN AllowedFieldErrors(doc, Elems(allowedFields), 1) ELSE <<>>)
          \o (IF Truthy(typeConstraints) /\ typeConstraints.t \in {"object", "array"}
                 /\ IsPlainObject(doc)
              THEN TypeConstraintErrors(doc, typeConstraints, 1) ELSE <<>>)
          \o (IF Truthy(valueConstraints) /\ valueConstraints.t \in {"object", "array"}
                 /\ IsPlainObject(doc)
              THEN ValueConstraintErrors(doc, valueConstraints, 1) ELSE <<>>)
  IN [valid |-> errors = <<>>, errors |-> errors]

----------------------------------------------------------------------------
(* Generate engine.  The directives ref, array and object are modelled;    *)
(* switch, transform, concat, math, date and random are not, and appear in *)
(* no explored template.                                                   *)

\* what a step of the generation gives: a value, or the error it raises
Gen(v) == [v |-> v, err |-> "", msg |-> <<>>]
GenError(err, msg) == [v |-> JUndef, err |-> err, msg |-> msg]

\* deepCloneTemplate(template)
RECURSIVE deepCloneTemplate(_)
deepCloneTemplate(t) ==
  IF IsNullish(t) THEN t
  ELSE IF IsArray(t) THEN JArr([i \in 1..Len(t.c) |-> deepCloneTemplate(t.c[i].v)])
  ELSE IF t.t = "object"
  THEN JObj([i \in 1..Len(t.c) |-> Entry(t.c[i].k, deepCloneTemplate(t.c[i].v))])
  ELSE t

\* the end of the run of characters other than } that starts at i
RECURSIVE RunEnd(_, _)
RunEnd(cs, i) == IF i <= Len(cs) /\ cs[i] # "}" THEN RunEnd(cs, i + 1) ELSE i

\* does /\{\{([^}]+)\}\}/ match at position i: the position after the match
\* (0 for no match)
MatchEnd(cs, i) ==
  LET j == RunEnd(cs, i + 2) IN
  IF /\ i + 1 <= Len(cs) /\ cs[i] = "{" /\ cs[i + 1] = "{"
     /\ j > i + 2
     /\ j + 1 <= Len(cs) /\ cs[j] = "}" /\ cs[j + 1] = "}"
  THEN j + 2
  ELSE 0

\* [...template.matchAll(placeholderRegex)] from position i on: the full
\* match and its captured path, in order
RECURSIVE MatchAll(_, _)
MatchAll(cs, i) ==
  IF i > Len(cs) THEN <<>>
  ELSE IF MatchEnd(cs, i) = 0 THEN MatchAll(cs, i + 1)
  ELSE <<[fullMatch |-> SubSeq(cs, i, MatchEnd(cs, i) - 1),
          path |-> SubSeq(cs, i + 2, MatchEnd(cs, i) - 3)]>>
         \o MatchAll(cs, MatchEnd(cs, i))

\* result.replace(fullMatch, text): the first occurrence, searched from i
RECURSIVE ReplaceFirst(_, _, _, _)
ReplaceFirst(cs, pattern, text, i) ==
  IF i + Len(pattern) - 1 > Len(cs) THEN cs
  ELSE IF SubSeq(cs, i, i + Len(pattern) - 1) = pattern
  THEN SubSeq(cs, 1, i - 1) \o text \o SubSeq(cs, i + Len(pattern), Len(cs))
  ELSE ReplaceFirst(cs, pattern, text, i + 1)

MissingData(p) == GenError("JsonGeneratorError", Chars("Missing data for path: ") \o p)

\* one turn of the loop over several placeholders: v is what getValue found
\* for the match
ReplaceOne(result, match, v, options) ==
  IF v = JUndef /\ options.strict THEN MissingData(match.path)
  ELSE Gen(JStr(ReplaceFirst(result, match.fullMatch,
                             JSString(IF v = JUndef THEN options.defaultValue ELSE v), 1)))

\* the loop over several placeholders from the i-th match on
RECURSIVE ReplaceEach(_, _, _, _, _)
ReplaceEachNext(replaced, matches, i, input, options) ==
  IF replaced.err # "" THEN replaced
  ELSE ReplaceEach(replaced.v.s, matches, i + 1, input, options)
ReplaceEach(result, matches, i, input, options) ==
  IF i > Len(matches) THEN Gen(JStr(result))
  ELSE ReplaceEachNext(
         ReplaceOne(result, matches[i], getValue(input, Trim(matches[i].path)), options),
         matches, i, input, options)

FoundValueAsString(v) == JStr(JSString(v))

\* return value: the value found, as it is
FoundValue(v) == v

\* the whole template is one placeholder: v is what getValue found at p
SinglePlaceholder(v, p, options) ==
  IF v = JUndef
  THEN (IF options.strict THEN MissingData(p) ELSE Gen(options.defaultValue))
  ELSE Gen(FoundValue(v))

\* processTemplateString after the matches are collected
ProcessMatches(matches, t, input, options) ==
  IF Len(matches) = 0 THEN Gen(t)
  ELSE IF Len(matches) = 1 /\ matches[1].fullMatch = t.s
  THEN SinglePlaceholder(getValue(input, Trim(matches[1].path)), Trim(matches[1].path),
                         options)
  ELSE ReplaceEach(t.s, matches, 1, input, options)

\* processTemplateString(template, data, options)
processTemplateString(t, input, options) ==
  ProcessMatches(MatchAll(t.s, 1), t, input, options)

DirectivesNotModelled ==
  {Chars("switch"), Chars("transform"), Chars("concat"), Chars("math"), Chars("date"),
   Chars("random")}

RECURSIVE processTemplate(_, _, _)
RECURSIVE ProcessItems(_, _, _, _, _)
RECURSIVE ProcessEntries(_, _, _, _, _)
RECURSIVE RepeatItems(_, _, _, _, _, _)
RECURSIVE processTemplateDirective(_, _, _)

\* template.map(item => processTemplate(item, data, options)) from the
\* i-th item on, done the items processed so far
ProcessItemsNext(item, items, i, input, options, done) ==
  IF item.err # "" THEN item
  ELSE ProcessItems(items, i + 1, input, options, Append(done, item.v))
ProcessItems(items, i, input, options, done) ==
  IF i > Len(items) THEN Gen(JArr(done))
  ELSE ProcessItemsNext(processTemplate(items[i], input, options),
                        items, i, input, options, done)

\* the loop over Object.entries(template) from the i-th entry on
ProcessEntriesNext(v, entries, i, input, options, result) ==
  IF v.err # "" THEN v
  ELSE ProcessEntries(entries, i + 1, input, options, SetProp(result, entries[i].k, v.v))
ProcessEntries(entries, i, input, options, result) ==
  IF i > Len(entries) THEN Gen(result)
  ELSE ProcessEntriesNext(processTemplate(entries[i].v, input, options),
                          entries, i, input, options, result)

\* the loop of the array directive from index i on
RepeatItemsNext(item, items, count, i, input, options, result) ==
  IF item.err # "" THEN item
  ELSE RepeatItems(items, count, i + 1, input, options, Append(result, item.v))
RepeatItems(items, count, i, input, options, result) ==
  IF i >= count.n THEN Gen(JArr(result))
  ELSE RepeatItemsNext(
         processTemplate(items,
           SetProp(SetProp(input, Chars("$index"), JNum(i)), Chars("$count"), count),
           options),
         items, count, i, input, options, result)

\* the ref directive: v is what getValue found at $path
Reference(v, directive, options) ==
  IF v = JUndef
  THEN (IF options.strict THEN MissingData(Field(directive, "$path").s)
        ELSE Gen(IF Field(directive, "$default") # JUndef
                 THEN Field(directive, "$default")
                 ELSE options.defaultValue))
  ELSE Gen(v)

\* processTemplateDirective(directive, data, options)
processTemplateDirective(directive, input, options) ==
  LET type == Field(directive, "$type") IN
  IF type = JStr(Chars("ref"))
  THEN IF ~Truthy(Field(directive, "$path"))
       THEN GenError("JsonGeneratorError", Chars("Missing $path in $type:ref directive"))
       ELSE Reference(getValue(input, Field(directive, "$path").s), directive, options)
  ELSE IF type = JStr(Chars("array"))
  THEN LET items == Field(directive, "$items")
           count == Field(directive, "$count")
       IN IF Truthy(items) /\ Truthy(count)
          THEN RepeatItems(items, count, 0, input, options, <<>>)
          ELSE IF Truthy(items) THEN processTemplate(items, input, options)
          ELSE Gen(JArr(<<>>))
  ELSE IF type = JStr(Chars("object"))
  THEN LET properties == Field(directive, "$properties") IN
       IF Truthy(properties) /\ properties.t \in {"object", "array"}
       THEN processTemplate(properties, input, options)
       ELSE Gen(JObj(<<>>))
  ELSE IF type.t = "string" /\ type.s \in DirectivesNotModelled
  THEN GenError("NotModelled", type.s)
  ELSE GenError("JsonGeneratorError", Chars("Unknown template directive: ") \o JSString(type))

\* processTemplate(template, data, options)
processTemplate(t, input, options) ==
  IF t.t = "string" THEN processTemplateString(t, input, options)
  ELSE IF IsArray(t) THEN ProcessItems(Elems(t), 1, input, options, <<>>)
  ELSE IF t.t = "object"
  THEN IF Truthy(Field(t, "$type"))
       THEN processTemplateDirective(t, input, options)
       ELSE ProcessEntries(t.c, 1, input, options, JObj(<<>>))
  ELSE Gen(t)

\* JsonGeneratorOptions with the defaults of generateJson filled in:
\* strict = false, defaultValue = null, validate = false, onError = 'throw'
JsonGeneratorOptions(strict, defaultValue, validate, validationSchema, onError) ==
  [strict |-> strict,
   defaultValue |-> IF defaultValue = JUndef THEN JNull ELSE defaultValue,
   validate |-> validate, validationSchema |-> validationSchema, onError |-> onError]

\* the try block up to the processing of the template
Processed(cloned, input, options) ==
  IF input # JUndef
  THEN processTemplate(cloned, input,
                       [strict |-> options.strict, defaultValue |-> options.defaultValue])
  ELSE Gen(cloned)

\* the validation step of the try block, on what the processing gave
Validated(processed, options) ==
  IF /\ processed.err = "" /\ options.validate /\ options.strict
     /\ ~validateJson(processed.v,
                      IF Truthy(options.validationSchema) THEN options.validationSchema
                      ELSE JObj(<<>>)).valid
  THEN GenError("JsonGeneratorError", Chars("Generated JSON failed validation"))
  ELSE processed

\* the catch block: onError decides what an error becomes
Caught(tried, t, options) ==
  IF tried.err = "" THEN tried
  ELSE IF options.onError = "throw"
  THEN (IF tried.err = "JsonGeneratorError" THEN tried
        ELSE GenError("JsonGeneratorError", Chars("Failed to generate JSON: ") \o tried.msg))
  ELSE IF options.onError = "default" THEN Gen(options.defaultValue)
  ELSE Gen(t)

\* generateJson(template, data, options)
generateJson(t, input, options) ==
  Caught(Validated(Processed(deepCloneTemplate(t), input, options), options), t, options)

----------------------------------------------------------------------------
(* The inputs of the path engine *)

SeqsUpTo(S, n) == UNION {[1..m -> S] : m \in 0..n}

ArraysOf(S) == {JArr(q) : q \in SeqsUpTo(S, MaxArrLen)}

ObjectsOf(S) ==
  {JObj(<<>>)}
    \cup {JObj(<<Entry(k, v)>>) : k \in {<<"a">>, <<"b">>}, v \in S}
    \cup {JObj(<<Entry(<<"a">>, v), Entry(<<"b">>, w)>>) : v \in S, w \in S}

Leaves == {JNull, JNum(1), JStr(<<"x">>)}
Flat == {JNum(1), JNull}
Nested == {JArr(<<>>), JArr(<<JNum(1)>>), JObj(<<Entry(<<"a">>, JNum(1))>>)}

\* scenario 1 and 2 of the specification
DocScenario1 ==
  JObj(<<Entry(<<"a">>, JObj(<<Entry(<<"b">>, JArr(<<JNum(1), JNum(2), JNum(3)>>))>>))>>)
PathScenario1 == <<"a", ".", "b", "[", "-", "1", "]">>
PathScenario2 == <<"a", ".", "b", "[", "0", "]", ".", "c">>
ResultScenario2 ==
  JObj(<<Entry(<<"a">>, JObj(<<Entry(<<"b">>,
         JArr(<<JObj(<<Entry(<<"c">>, JNum(5))>>)>>))>>))>>)

Docs ==
  Leaves \cup ArraysOf(Flat) \cup ObjectsOf(Flat)
         \cup ArraysOf(Nested) \cup ObjectsOf(Nested) \cup {DocScenario1}

Segments == {KeySeg(<<"a">>), KeySeg(<<"b">>), IdxSeg(0), IdxSeg(1), IdxSeg(-1), IdxSeg(-2)}

SegmentLists == UNION {[1..m -> Segments] : m \in 1..MaxPathLen}

Paths == {getPathString(q) : q \in SegmentLists} \cup {PathScenario1, PathScenario2}

Values == {JNum(5), JNull}

----------------------------------------------------------------------------
(* The calls of the path engine on the caller's document *)

NoRet == PathResult(JUndef, FALSE, NoSeg, JUndef, "", "")

\* the variables of an engine while another engine is explored
IdlePath == json = JUndef /\ path = <<>> /\ value = JUndef
IdleMerge == tgt = JUndef /\ src = JUndef /\ opts = JUndef
IdleCompare == docA = JUndef /\ docB = JUndef
IdleValidate == instance = JUndef /\ schema = JUndef
IdleGenerate == template = JUndef /\ data = JUndef /\ genOptions = JUndef

InitPath ==
  /\ json \in Docs
  /\ path \in Paths
  /\ value \in Values
  /\ pc = "init"
  /\ ret = NoRet
  /\ IdleMerge /\ IdleCompare /\ IdleValidate /\ IdleGenerate

\* result = jsonPath(json, path)
Evaluate ==
  /\ pc = "init"
  /\ ret' = jsonPath(json, path, NoOptions)
  /\ json' = ret'.doc
  /\ pc' = "evaluate"
  /\ UNCHANGED <<path, value, mergeVars, compareVars, validateVars, generateVars>>

\* json = setValue(json, path, value)
SetValue ==
  /\ pc = "init"
  /\ ret' = setValue(json, path, value)
  /\ json' = ret'.doc
  /\ pc' = "setValue"
  /\ UNCHANGED <<path, value, mergeVars, compareVars, validateVars, generateVars>>

\* getValue(json, path), on the document as it is or on what setValue returned
GetValue ==
  /\ pc \in {"init", "setValue"}
  /\ pc = "setValue" => ret.err = ""
  /\ ret' = PathResult(getValue(json, path), FALSE, NoSeg, json, "", "")
  /\ pc' = IF pc = "setValue" THEN "getAfterSet" ELSE "getValue"
  /\ UNCHANGED inputVars

\* the destinations of a move
MovePaths == {<<"b">>, <<"a", "[", "0", "]">>}

\* json = deleteValue(json, path)
DeleteValue ==
  /\ pc = "init"
  /\ ret' = deleteValue(json, path)
  /\ json' = ret'.doc
  /\ pc' = "deleteValue"
  /\ UNCHANGED <<path, value, mergeVars, compareVars, validateVars, generateVars>>

\* json = moveValue(json, path, toPath)
MoveValue ==
  /\ pc = "init"
  /\ \E toPath \in MovePaths : ret' = moveValue(json, path, toPath)
  /\ json' = ret'.doc
  /\ pc' = "moveValue"
  /\ UNCHANGED <<path, value, mergeVars, compareVars, validateVars, generateVars>>

NextPath == Evaluate \/ SetValue \/ GetValue \/ DeleteValue \/ MoveValue

SpecPath == InitPath /\ [][NextPath]_vars

----------------------------------------------------------------------------
(* The calls of hasPath *)

InitHasPath ==
  /\ json \in Docs
  /\ path \in Paths
  /\ value = JUndef
  /\ pc = "init"
  /\ ret = NoRet
  /\ IdleMerge /\ IdleCompare /\ IdleValidate /\ IdleGenerate

\* result = hasPath(json, path)
HasPath ==
  /\ pc = "init"
  /\ ret' = [NoRet EXCEPT !.exists = hasPath(json, path)]
  /\ pc' = "hasPath"
  /\ UNCHANGED inputVars

NextHasPath == HasPath

SpecHasPath == InitHasPath /\ [][NextHasPath]_vars

----------------------------------------------------------------------------
(* The calls of getAllPaths and findPaths *)

InitAllPaths ==
  /\ json \in Docs
  /\ path = <<>> /\ value = JUndef
  /\ pc = "init"
  /\ ret = [paths |-> <<>>, results |-> <<>>, pattern |-> <<>>]
  /\ IdleMerge /\ IdleCompare /\ IdleValidate /\ IdleGenerate

\* paths = getAllPaths(json)
GetAllPaths ==
  /\ pc = "init"
  /\ ret' = [paths |-> getAllPaths(json), results |-> <<>>, pattern |-> <<>>]
  /\ pc' = "getAllPaths"
  /\ UNCHANGED inputVars

\* the empty pattern is included in every path
Patterns == {<<>>, <<"a">>, <<"0">>}

\* results = findPaths(json, pattern)
FindPaths ==
  /\ pc = "init"
  /\ \E pattern \in Patterns :
       ret' = [paths |-> <<>>, results |-> findPaths(json, pattern), pattern |-> pattern]
  /\ pc' = "findPaths"
  /\ UNCHANGED inputVars

NextAllPaths == GetAllPaths \/ FindPaths

SpecAllPaths == InitAllPaths /\ [][NextAllPaths]_vars

----------------------------------------------------------------------------

(* The calls of the merge engine *)

ObjAB == JObj(<<Entry(<<"a">>, JNum(1)), Entry(<<"b">>, JNum(2))>>)
ObjBA == JObj(<<Entry(<<"b">>, JNum(2)), Entry(<<"a">>, JNum(1))>>)

MergeLeaves == {JNull, JNum(1), JNum(2), JStr(<<"x">>)}
MergeElems == {JNum(1), JNum(2), ObjAB, ObjBA}
MergeArrays == {JArr(q) : q \in SeqsUpTo(MergeElems, MaxArrLen)}

\* objects over the keys a and b, in both insertion orders
ObjectsOver(S) ==
  {JObj(<<>>)}
    \cup {JObj(<<Entry(k, v)>>) : k \in {<<"a">>, <<"b">>}, v \in S}
    \cup {JObj(<<Entry(<<"a">>, v), Entry(<<"b">>, w)>>) : v \in S, w \in S}
    \cup {JObj(<<Entry(<<"b">>, w), Entry(<<"a">>, v)>>) : v \in S, w \in S}

MergeFlat == ObjectsOver(MergeLeaves)

\* scenario 3 of the specification: {a:[1,2]}, {a:[2,3]} and {a:[1,2,3]}
UnionTarget == JObj(<<Entry(<<"a">>, JArr(<<JNum(1), JNum(2)>>))>>)
UnionSource == JObj(<<Entry(<<"a">>, JArr(<<JNum(2), JNum(3)>>))>>)
UnionResult == JObj(<<Entry(<<"a">>, JArr(<<JNum(1), JNum(2), JNum(3)>>))>>)

MergeDocs ==
  MergeFlat
    \cup {JObj(<<Entry(<<"a">>, arr)>>) : arr \in MergeArrays}
    \cup {JObj(<<Entry(<<"a">>, o)>>) : o \in ObjectsOver({JNum(1), JStr(<<"x">>), JNull})}
    \cup {UnionTarget, UnionSource}

MergeOptionSets ==
  {JsonMergeOptions("deep", "concat", c, DefaultMaxDepth) :
     c \in {"target", "source", "throw", "priority"}}
    \cup {JsonMergeOptions("deep", a, "source", DefaultMaxDepth) :
            a \in {"union", "intersection", "replace", "deep"}}
    \cup {JsonMergeOptions("shallow", "concat", "source", DefaultMaxDepth),
          JsonMergeOptions("shallow", "concat", "throw", DefaultMaxDepth),
          JsonMergeOptions("deep", "concat", "throw", SmallMaxDepth)}

InitMerge ==
  /\ tgt \in MergeDocs
  /\ src \in MergeDocs
  /\ opts \in MergeOptionSets
  /\ pc = "init"
  /\ ret = Merged(JUndef)
  /\ IdlePath /\ IdleCompare /\ IdleValidate /\ IdleGenerate

\* merged = deepMerge(target, source, options); the result is kept with
\* the owners of the objects the call has assigned into
DeepMerge ==
  /\ pc = "init"
  /\ ret' = deepMerge(tgt, src, opts) @@ [assigned |-> deepMergeAssigned(tgt, src, opts)]
  /\ pc' = "deepMerge"
  /\ UNCHANGED inputVars

NextMerge == DeepMerge

SpecMerge == InitMerge /\ [][NextMerge]_vars

----------------------------------------------------------------------------
(* The calls of flattenJson and unflattenJson *)

FlattenLeaves == {JNum(1), JNull, JStr(<<"x">>), JArr(<<>>), JArr(<<JNum(1)>>)}

FlattenInner ==
  {JObj(<<>>), JObj(<<Entry(<<"a">>, JNum(1))>>), JObj(<<Entry(<<"b">>, JArr(<<JNum(1)>>))>>),
   JObj(<<Entry(<<"a">>, JObj(<<>>))>>)}

FlattenDocs ==
  {JObj(<<>>), JNull, JArr(<<JNum(1)>>),
   JObj(<<Entry(<<"a", ".", "b">>, JNum(1))>>),
   JObj(<<Entry(<<"a">>, JArr(<<JNum(1)>>)), Entry(<<"a", ".", "0">>, JNum(2))>>)}
    \cup {JObj(<<Entry(k, v)>>) : k \in {<<"a">>, <<"b">>}, v \in FlattenLeaves \cup FlattenInner}
    \cup {JObj(<<Entry(<<"a">>, v), Entry(<<"b">>, w)>>) :
            v \in FlattenLeaves \cup FlattenInner, w \in FlattenLeaves \cup FlattenInner}

Delimiters == {<<".">>, <<"/">>}

InitFlatten ==
  /\ tgt \in FlattenDocs
  /\ src = JUndef
  /\ opts \in {JStr(delimiter) : delimiter \in Delimiters}
  /\ pc = "init"
  /\ ret = Transformed(JUndef)
  /\ IdlePath /\ IdleCompare /\ IdleValidate /\ IdleGenerate

\* flat = flattenJson(x, delimiter)
FlattenJson ==
  /\ pc = "init"
  /\ ret' = flattenJson(tgt, opts.s, <<>>)
  /\ pc' = "flattenJson"
  /\ UNCHANGED inputVars

\* unflattenJson(x, delimiter), or unflattenJson(flat, delimiter) on what
\* flattenJson returned
UnflattenJson ==
  /\ pc \in {"init", "flattenJson"}
  /\ pc = "flattenJson" => ret.err = ""
  /\ ret' = unflattenJson(IF pc = "init" THEN tgt ELSE ret.v, opts.s)
  /\ pc' = IF pc = "init" THEN "unflattenJson" ELSE "unflattenAfterFlatten"
  /\ UNCHANGED inputVars

NextFlatten == FlattenJson \/ UnflattenJson

SpecFlatten == InitFlatten /\ [][NextFlatten]_vars

----------------------------------------------------------------------------

(* The calls of mergeWithPriority *)

\* what the build makes of the const declaration that is assigned to
Builds == {"const", "var"}

InitPriority ==
  /\ tgt \in MergeDocs
  /\ src \in MergeDocs
  /\ opts = JUndef
  /\ pc = "init"
  /\ ret = Merged(JUndef)
  /\ IdlePath /\ IdleCompare /\ IdleValidate /\ IdleGenerate

\* merged = mergeWithPriority(...objects), on one, two or three objects;
\* the result is kept with the objects of the call
MergeWithPriority ==
  /\ pc = "init"
  /\ \E objects \in {<<tgt>>, <<tgt, src>>, <<tgt, src, ObjAB>>}, build \in Builds :
       ret' = mergeWithPriority(objects, build) @@ [objects |-> objects]
  /\ pc' = "mergeWithPriority"
  /\ UNCHANGED inputVars

NextPriority == MergeWithPriority

SpecPriority == InitPriority /\ [][NextPriority]_vars

----------------------------------------------------------------------------
(* The calls of mergeWithResolver *)

Resolvers == {"undefined", "target", "source"}

InitResolver ==
  /\ tgt \in MergeDocs
  /\ src \in MergeDocs
  /\ opts = JUndef
  /\ pc = "init"
  /\ ret = Resolved(JUndef, <<>>)
  /\ IdlePath /\ IdleCompare /\ IdleValidate /\ IdleGenerate

\* merged = mergeWithResolver(target, source, resolver); the result is
\* kept with the resolver of the call
MergeWithResolver ==
  /\ pc = "init"
  /\ \E resolver \in Resolvers :
       ret' = mergeWithResolver(tgt, src, resolver) @@ [resolver |-> resolver]
  /\ pc' = "mergeWithResolver"
  /\ UNCHANGED inputVars

NextResolver == MergeWithResolver

SpecResolver == InitResolver /\ [][NextResolver]_vars

----------------------------------------------------------------------------
(* The calls of checkMergeConflicts, each followed by the merge it is the
   dry run of *)

\* {conflictStrategy: 'throw'} with the defaults of deepMerge
ThrowOptions == JsonMergeOptions("deep", "concat", "throw", DefaultMaxDepth)

InitConflicts ==
  /\ tgt \in MergeDocs
  /\ src \in MergeDocs
  /\ opts = ThrowOptions
  /\ pc = "init"
  /\ ret = [conflicts |-> <<>>]
  /\ IdlePath /\ IdleCompare /\ IdleValidate /\ IdleGenerate

\* conflicts = checkMergeConflicts(target, source)
CheckMergeConflicts ==
  /\ pc = "init"
  /\ ret' = [conflicts |-> checkMergeConflicts(tgt, src)]
  /\ pc' = "checked"
  /\ UNCHANGED inputVars

\* deepMerge(target, source, {conflictStrategy: 'throw'}) after the dry
\* run; its outcome is kept with the conflicts reported
MergeAfterCheck ==
  /\ pc = "checked"
  /\ ret' = deepMerge(tgt, src, opts) @@ ret
  /\ pc' = "merged"
  /\ UNCHANGED inputVars

NextConflicts == CheckMergeConflicts \/ MergeAfterCheck

SpecConflicts == InitConflicts /\ [][NextConflicts]_vars

----------------------------------------------------------------------------
(* The calls of the compare engine *)

CompareInner ==
  {JNull, JNum(1), JNum(2), JStr(<<"x">>), JArr(<<JNum(1)>>),
   JObj(<<Entry(<<"a">>, JNum(1))>>)}

\* objects over the keys a and b, in either insertion order
CompareObjectsOver(S) ==
  {JObj(<<>>)}
    \cup {JObj(<<Entry(k, v)>>) : k \in {<<"a">>, <<"b">>}, v \in S}
    \cup {JObj(<<Entry(<<"a">>, v), Entry(<<"b">>, w)>>) : v \in S, w \in S}
    \cup {JObj(<<Entry(<<"b">>, v), Entry(<<"a">>, w)>>) : v \in S, w \in S}

CompareDocs ==
  {JNull, JNum(1), JNum(2), JStr(<<"x">>), JBool(TRUE)}
    \cup ArraysOf(CompareInner) \cup CompareObjectsOver(CompareInner)

NoCompared == Compared(FALSE, <<>>)

InitCompare ==
  /\ docA \in CompareDocs
  /\ docB \in CompareDocs
  /\ pc = "init"
  /\ ret = [ab |-> NoCompared, ba |-> NoCompared]
  /\ IdlePath /\ IdleMerge /\ IdleValidate /\ IdleGenerate

\* ab = compareJson(a, b)
CompareJson ==
  /\ pc = "init"
  /\ ret' = [ret EXCEPT !.ab = compareJson(docA, docB)]
  /\ pc' = "compareJson"
  /\ UNCHANGED inputVars

\* ba = compareJson(b, a), after ab
CompareJsonSwapped ==
  /\ pc = "compareJson"
  /\ ret' = [ret EXCEPT !.ba = compareJson(docB, docA)]
  /\ pc' = "compared"
  /\ UNCHANGED inputVars

NextCompare == CompareJson \/ CompareJsonSwapped

SpecCompare == InitCompare /\ [][NextCompare]_vars

----------------------------------------------------------------------------
(* The calls of compareWithTolerance *)

Tolerances == {0, 1}

InitTolerance ==
  /\ docA \in CompareDocs
  /\ docB \in CompareDocs
  /\ pc = "init"
  /\ ret = NoCompared
  /\ IdlePath /\ IdleMerge /\ IdleValidate /\ IdleGenerate

\* result = compareWithTolerance(a, b, tolerance), kept with the tolerance
CompareWithTolerance ==
  /\ pc = "init"
  /\ \E tolerance \in Tolerances :
       ret' = compareWithTolerance(docA, docB, tolerance) @@ [tolerance |-> tolerance]
  /\ pc' = "compareWithTolerance"
  /\ UNCHANGED inputVars

NextTolerance == CompareWithTolerance

SpecTolerance == InitTolerance /\ [][NextTolerance]_vars

----------------------------------------------------------------------------
(* The calls of compareArraysUnordered *)

InitUnordered ==
  /\ docA \in CompareDocs
  /\ docB \in CompareDocs
  /\ pc = "init"
  /\ ret = NoCompared
  /\ IdlePath /\ IdleMerge /\ IdleValidate /\ IdleGenerate

\* result = compareArraysUnordered(a, b)
CompareArraysUnordered ==
  /\ pc = "init"
  /\ ret' = compareArraysUnordered(docA, docB)
  /\ pc' = "compareArraysUnordered"
  /\ UNCHANGED inputVars

NextUnordered == CompareArraysUnordered

SpecUnordered == InitUnordered /\ [][NextUnordered]_vars

----------------------------------------------------------------------------
(* The calls of the validate engine *)

KeyName == Chars("name")

\* a schema object from its keywords, given as <<name, value>> pairs
SchemaOf(pairs) == JObj([i \in 1..Len(pairs) |-> Entry(Chars(pairs[i][1]), pairs[i][2])])

TypeOf(name) == <<"type", JStr(Chars(name))>>
Names(keys) == JArr([i \in 1..Len(keys) |-> JStr(keys[i])])

\* the schemas of properties and items
LeafSchemas ==
  {SchemaOf(<<TypeOf("string")>>),
   SchemaOf(<<TypeOf("string"), <<"minLength", JNum(2)>>, <<"maxLength", JNum(2)>>>>),
   SchemaOf(<<TypeOf("number"), <<"minimum", JNum(2)>>, <<"multipleOf", JNum(2)>>>>),
   SchemaOf(<<<<"maximum", JNum(1)>>, <<"enum", JArr(<<JNum(1), JStr(<<"x">>)>>)>>>>),
   SchemaOf(<<<<"type", JArr(<<JStr(Chars("number")), JStr(Chars("null"))>>)>>,
              <<"const", JNum(1)>>>>),
   SchemaOf(<<TypeOf("array"), <<"items", SchemaOf(<<TypeOf("number"), <<"minimum", JNum(2)>>>>)>>,
              <<"minItems", JNum(2)>>, <<"uniqueItems", JBool(TRUE)>>>>),
   SchemaOf(<<<<"items", SchemaOf(<<TypeOf("number")>>)>>, <<"uniqueItems", JBool(TRUE)>>,
              <<"maxItems", JNum(1)>>>>),
   SchemaOf(<<TypeOf("object"), <<"required", Names(<<<<"a">>>>)>>,
              <<"properties", JObj(<<Entry(<<"a">>, SchemaOf(<<TypeOf("number")>>))>>)>>,
              <<"maxProperties", JNum(1)>>>>)}

SecondSchemas ==
  {SchemaOf(<<TypeOf("string"), <<"minLength", JNum(2)>>>>),
   SchemaOf(<<TypeOf("number"), <<"exclusiveMinimum", JNum(1)>>, <<"exclusiveMaximum", JNum(3)>>>>),
   SchemaOf(<<TypeOf("array"), <<"items", SchemaOf(<<TypeOf("string")>>)>>>>)}

ObjectSchemas ==
  {SchemaOf(<<TypeOf("object"), <<"required", Names(r)>>,
              <<"properties", JObj(<<Entry(<<"a">>, l1), Entry(<<"b">>, l2)>>)>>>>
              \o extra) :
     r \in {<<>>, <<<<"a">>>>, <<<<"a">>, <<"b">>>>, <<KeyName>>},
     l1 \in LeafSchemas, l2 \in SecondSchemas,
     extra \in {<<>>, <<<<"additionalProperties", JBool(FALSE)>>, <<"minProperties", JNum(2)>>>>}}

\* scenario 5 of the specification
SchemaScenario5 ==
  SchemaOf(<<TypeOf("object"), <<"required", Names(<<KeyName>>)>>,
             <<"properties", JObj(<<Entry(KeyName, SchemaOf(<<TypeOf("string")>>))>>)>>>>)

Schemas == LeafSchemas \cup ObjectSchemas \cup {SchemaScenario5}

ValidateInner ==
  {JNum(1), JNum(3), JStr(<<"x">>), JStr(<<"x", "y", "z">>), JNull,
   JArr(<<JNum(1), JNum(1)>>), JArr(<<JStr(<<"x">>)>>),
   JObj(<<Entry(<<"a">>, JStr(<<"x">>)), Entry(<<"b">>, JNum(1))>>), JObj(<<>>)}

ValidateElems == {JNum(1), JNum(3), JStr(<<"x">>), JObj(<<>>)}

Instances ==
  {JNum(1), JNum(4), JStr(<<"x">>), JNull, JObj(<<Entry(KeyName, JNum(1))>>)}
    \cup ArraysOf(ValidateElems)
    \cup ObjectsOf(ValidateInner)
    \cup {JObj(<<Entry(<<"c">>, v)>>) : v \in ValidateElems}

NoValidation == [valid |-> FALSE, errors |-> <<>>]

InitValidate ==
  /\ instance \in Instances
  /\ schema \in Schemas
  /\ pc = "init"
  /\ ret = NoValidation
  /\ IdlePath /\ IdleMerge /\ IdleCompare /\ IdleGenerate

\* result = validateSchema(json, schema)
ValidateSchema ==
  /\ pc = "init"
  /\ ret' = validateSchema(instance, schema)
  /\ pc' = "validateSchema"
  /\ UNCHANGED inputVars

NextValidate == ValidateSchema

SpecValidate == InitValidate /\ [][NextValidate]_vars

----------------------------------------------------------------------------
(* The calls of the generate engine *)

KeyUser == Chars("user")
KeyGreeting == Chars("greeting")
KeyItems == Chars("items")

\* the places the placeholders of the explored templates name
PlaceholderSegments ==
  {<<KeySeg(KeyUser), KeySeg(KeyName)>>, <<KeySeg(KeyUser)>>, <<KeySeg(KeyName)>>,
   <<KeySeg(KeyItems), IdxSeg(0)>>, <<KeySeg(KeyItems), IdxSeg(1), KeySeg(KeyName)>>}

\* a place written as a path: keys joined by dots, indices in brackets
RECURSIVE PlaceholderPath(_, _)
PlaceholderPath(segs, i) ==
  IF i > Len(segs) THEN <<>>
  ELSE (IF segs[i].num THEN <<"[">> \o NatChars(segs[i].i) \o <<"]">>
        ELSE (IF i > 1 THEN <<".">> ELSE <<>>) \o segs[i].k)
         \o PlaceholderPath(segs, i + 1)

\* the template string {{path}}, with pad spaces around the path
Placeholder(segs, pad) ==
  JStr(Chars("{{") \o pad \o PlaceholderPath(segs, 1) \o pad \o Chars("}}"))

\* a template string on its own, as the greeting of an object, or in an array
Shapes == {"root", "object", "array"}
Shaped(shape, v) ==
  IF shape = "object" THEN JObj(<<Entry(KeyGreeting, v)>>)
  ELSE IF shape = "array" THEN JArr(<<v>>)
  ELSE v

SinglePlaceholders ==
  {Shaped(shape, Placeholder(segs, pad)) :
     shape \in Shapes, segs \in PlaceholderSegments, pad \in {<<>>, <<" ">>}}

\* scenario 6 of the specification
TemplateScenario6 == JObj(<<Entry(KeyGreeting, JStr(Chars("{{user.name}}")))>>)
Ada == JStr(Chars("Ada"))
DataScenario6 == JObj(<<Entry(KeyUser, JObj(<<Entry(KeyName, Ada)>>))>>)

\* a ref directive to user.name, with a $default of its own and without
RefWithoutDefault ==
  JObj(<<Entry(Chars("$type"), JStr(Chars("ref"))),
         Entry(Chars("$path"), JStr(Chars("user.name")))>>)
RefWithDefault ==
  JObj(RefWithoutDefault.c \o <<Entry(Chars("$default"), JNum(7))>>)

\* an array directive that repeats the placeholder {{$index}} count times
ArrayDirective(count) ==
  JObj(<<Entry(Chars("$type"), JStr(Chars("array"))),
         Entry(Chars("$items"), JStr(Chars("{{$index}}"))),
         Entry(Chars("$count"), JNum(count))>>)

Templates ==
  SinglePlaceholders
    \cup {ArrayDirective(count) : count \in 0..MaxArrLen}
    \cup {JStr(Chars("Hello {{user.name}}!")), JStr(Chars("{{name}}{{user.name}}")),
          JStr(Chars("plain")), JStr(Chars("{{}}")), JStr(Chars("{{{name}}}")), JNum(1), JNull,
          RefWithDefault, RefWithoutDefault,
          JObj(<<Entry(Chars("$type"), JStr(Chars("object"))),
                 Entry(Chars("$properties"), TemplateScenario6)>>),
          JObj(<<Entry(Chars("$type"), JStr(Chars("literal"))),
                 Entry(Chars("$value"), JNum(1))>>)}

GenerateData ==
  {JUndef, JObj(<<>>), DataScenario6,
   JObj(<<Entry(KeyUser, JNull)>>),
   JObj(<<Entry(KeyUser, JObj(<<Entry(KeyName, JNum(1))>>)), Entry(KeyName, JBool(FALSE))>>),
   JObj(<<Entry(KeyUser, JObj(<<Entry(KeyName, JNull)>>)), Entry(KeyName, JStr(<<>>))>>),
   JObj(<<Entry(KeyUser, JStr(<<"x">>)), Entry(KeyName, JNum(0))>>),
   JObj(<<Entry(KeyItems, JArr(<<JNum(1), DataScenario6.c[1].v>>)), Entry(KeyName, Ada)>>),
   JObj(<<Entry(KeyItems, JArr(<<>>)), Entry(KeyUser, JArr(<<Ada>>))>>),
   JObj(<<Entry(KeyItems, JObj(<<Entry(<<"0">>, Ada)>>))>>)}

\* a validationSchema in the form of a JSON schema: {type: 'string'}
StringSchema == SchemaOf(<<TypeOf("string")>>)

GenerateOptions ==
  {JsonGeneratorOptions(strict, defaultValue, validate, validationSchema, onError) :
     strict \in BOOLEAN, defaultValue \in {JUndef, JNull, JNum(0), JStr(Chars("n/a"))},
     validate \in BOOLEAN,
     validationSchema \in {JUndef, SchemaOf(<<<<"requiredFields", Names(<<KeyGreeting>>)>>>>),
                           StringSchema},
     onError \in {"throw", "default", "ignore"}}

InitGenerate ==
  /\ template \in Templates
  /\ data \in GenerateData
  /\ genOptions \in GenerateOptions
  /\ pc = "init"
  /\ ret = Gen(JUndef)
  /\ IdlePath /\ IdleMerge /\ IdleCompare /\ IdleValidate

\* result = generateJson(template, data, options)
GenerateJson ==
  /\ pc = "init"
  /\ ret' = generateJson(template, data, genOptions)
  /\ pc' = "generateJson"
  /\ UNCHANGED inputVars

NextGenerate == GenerateJson

SpecGenerate == InitGenerate /\ [][NextGenerate]_vars

----------------------------------------------------------------------------
(* Path engine: properties *)

Parsed == parsePathExpression(path).segments

\* C1: path round trip: setValue(json, p, v) returns, and getValue of its
\* result at p is structurally equal to v
C1_RoundTrip ==
  /\ pc = "setValue" => ret.err = ""
  /\ pc = "getAfterSet" => StructEq(ret.value, value)

\* the containers along segs, from v down, have the type the segment that
\* indexes into them asks for, and the last segment holds leaf
RECURSIVE Materialized(_, _, _)
Materialized(v, segs, leaf) ==
  IF segs = <<>> THEN StructEq(v, leaf)
  ELSE IF segs[1].num
  THEN IsArray(v) /\ segs[1].i < Len(v.c) /\ Materialized(ArrGet(v, segs[1].i), Tail(segs), leaf)
  ELSE IsObject(v) /\ HasKey(v, segs[1].k) /\ Materialized(GetProp(v, segs[1].k), Tail(segs), leaf)

\* a path of keys and non-negative indices that starts with a key absent
\* from the object json: everything below the root is missing
AllMissing ==
  /\ IsObject(json)
  /\ Parsed # <<>>
  /\ ~Parsed[1].num /\ ~HasKey(json, Parsed[1].k)
  /\ \A i \in 1..Len(Parsed) : Parsed[i].num => Parsed[i].i >= 0

\* C2: in create mode every missing intermediate container becomes an array
\* when the segment indexing into it is numeric and an object when it is a
\* key, and setValue({}, "a.b[0].c", 5) returns {a:{b:[{c:5}]}}
C2_CreateBySegmentType ==
  [][(pc = "init" /\ pc' = "setValue" /\ AllMissing) =>
       /\ ret'.err = ""
       /\ Materialized(ret'.target, Parsed, value)
       /\ (json = JObj(<<>>) /\ path = PathScenario2 /\ value = JNum(5))
            => StructEq(ret'.target, ResultScenario2)]_vars

\* what reading segs from v is expected to give when negative indices count
\* from the end: the value found, a raise for [-k] on fewer than k
\* elements, or neither (a missing key, an index past the end, a leaf)
RECURSIVE ReadFromEnd(_, _)
ReadFromEnd(v, segs) ==
  IF segs = <<>> THEN [kind |-> "found", val |-> v]
  ELSE LET h == segs[1] IN
       IF IsArray(v) /\ h.num
       THEN IF h.i < 0 /\ 0 - h.i > Len(v.c) THEN [kind |-> "raise", val |-> JUndef]
            ELSE IF h.i < 0 THEN ReadFromEnd(v.c[Len(v.c) + h.i + 1].v, Tail(segs))
            ELSE IF h.i < Len(v.c) THEN ReadFromEnd(v.c[h.i + 1].v, Tail(segs))
            ELSE [kind |-> "other", val |-> JUndef]
       ELSE IF IsObject(v) /\ ~h.num /\ HasKey(v, h.k)
       THEN ReadFromEnd(GetProp(v, h.k), Tail(segs))
       ELSE [kind |-> "other", val |-> JUndef]

HasNegative(segs) == \E i \in 1..Len(segs) : segs[i].num /\ segs[i].i < 0

\* C3: a read through [-k] on an array of n elements returns element n-k
\* with exists:true when 1 <= k <= n and raises when k > n
C3_NegativeIndexRead ==
  (pc = "evaluate" /\ HasNegative(Parsed)) =>
     LET expected == ReadFromEnd(json, Parsed) IN
     /\ expected.kind = "found" =>
          ret.err = "" /\ ret.exists /\ ret.value = expected.val
     /\ expected.kind = "raise" => ret.err = "JsonPathError"

C3_Witness ==
  /\ pc = "evaluate"
  /\ json = DocScenario1 /\ path = PathScenario1
  /\ ret.exists /\ ret.value = JNum(3)

----------------------------------------------------------------------------
(* Merge engine: properties *)

ReplaceFromSource == JsonMergeOptions("deep", "replace", "source", DefaultMaxDepth)

RECURSIVE FirstOccurrences(_, _)
FirstOccurrences(q, i) ==
  IF i > Len(q) THEN <<>>
  ELSE (IF \E j \in 1..(i - 1) : StructEq(q[j], q[i]) THEN <<>> ELSE <<q[i]>>)
         \o FirstOccurrences(q, i + 1)

KeyA == <<"a">>

\* C5: under arrayStrategy 'union' two arrays at the same key merge to
\* target-then-source without the elements structurally equal to an earlier
\* one, whatever the insertion order of their keys
C5_UnionDedupes ==
  (/\ pc = "deepMerge"
   /\ opts.arrayStrategy = "union"
   /\ IsArray(GetProp(tgt, KeyA)) /\ IsArray(GetProp(src, KeyA))) =>
     /\ ret.err = ""
     /\ Elems(GetProp(ret.v, KeyA))
          = FirstOccurrences(Elems(GetProp(tgt, KeyA)) \o Elems(GetProp(src, KeyA)), 1)
     /\ (tgt = UnionTarget /\ src = UnionSource) => ret.v = UnionResult

\* the key paths present in both t and s, reached through objects on both sides
RECURSIVE CommonKeyPaths(_, _)
CommonKeyPaths(t, s) ==
  IF IsObject(t) /\ IsObject(s)
  THEN UNION {{<<k>>} \cup {<<k>> \o q : q \in CommonKeyPaths(GetProp(t, k), GetProp(s, k))} :
                k \in {e.k : e \in {t.c[i] : i \in 1..Len(t.c)}}
                        \cap {e.k : e \in {s.c[i] : i \in 1..Len(s.c)}}}
  ELSE {}

RECURSIVE AtKeys(_, _)
AtKeys(v, keys) == IF keys = <<>> THEN v ELSE AtKeys(GetProp(v, keys[1]), Tail(keys))

RECURSIVE DotJoin(_)
DotJoin(keys) ==
  IF keys = <<>> THEN <<>>
  ELSE IF Len(keys) = 1 THEN keys[1]
  ELSE keys[1] \o <<".">> \o DotJoin(Tail(keys))

RECURSIVE Conflicts(_, _, _)
RECURSIVE ConflictsFrom(_, _, _, _)
ConflictsFrom(t, s, keys, i) ==
  IF i > Len(s.c) THEN <<>>
  ELSE (IF HasKey(t, s.c[i].k)
        THEN Conflicts(GetProp(t, s.c[i].k), s.c[i].v, Append(keys, s.c[i].k))
        ELSE <<>>)
         \o ConflictsFrom(t, s, keys, i + 1)
Conflicts(t, s, keys) ==
  IF IsNullish(t) \/ IsNullish(s) THEN <<>>
  ELSE IF t.t # s.t THEN <<[keys |-> keys, a |-> t, b |-> s]>>
  ELSE IF IsObject(t) THEN ConflictsFrom(t, s, keys, 1)
  ELSE IF IsArray(t) THEN <<>>
  ELSE IF t # s THEN <<[keys |-> keys, a |-> t, b |-> s]>>
  ELSE <<>>

----------------------------------------------------------------------------
(* Compare engine: properties *)

\* the number of times each element occurs in a sequence
BagOf(q) ==
  [e \in {q[i] : i \in 1..Len(q)} |-> Cardinality({i \in 1..Len(q) : q[i] = e})]

\* 'missing-in-a' and 'missing-in-b' exchanged, every other type kept
Exchanged(type) ==
  IF type = "missing-in-a" THEN "missing-in-b"
  ELSE IF type = "missing-in-b" THEN "missing-in-a"
  ELSE type

\* C7: compareJson(a, b).equal is compareJson(b, a).equal, and the
\* differences of compareJson(b, a) are those of compareJson(a, b), path by
\* path, with missing-in-a and missing-in-b exchanged
C7_CompareSymmetry ==
  pc = "compared" =>
     /\ ret.ab.equal = ret.ba.equal
     /\ BagOf([i \in 1..Len(ret.ba.differences) |->
                 <<ret.ba.differences[i].path, ret.ba.differences[i].type>>])
          = BagOf([i \in 1..Len(ret.ab.differences) |->
                     <<ret.ab.differences[i].path, Exchanged(ret.ab.differences[i].type)>>])

\* both directions compared, a key of b missing in a
C7_Witness ==
  /\ pc = "compared"
  /\ ~ret.ab.equal
  /\ \E i \in 1..Len(ret.ab.differences), j \in 1..Len(ret.ba.differences) :
       /\ ret.ab.differences[i].type = "missing-in-a"
       /\ ret.ba.differences[j].type = "missing-in-b"
       /\ ret.ab.differences[i].path = ret.ba.differences[j].path

----------------------------------------------------------------------------
(* Validate engine: properties *)

\* a violated constraint: the keyword and the place it is reported at
Violation(loc, keyword) == [loc |-> loc, keyword |-> keyword]

\* the type of the document is not among the types the schema allows
TypeMismatch(doc, sch) ==
  LET type == Field(sch, "type")
      allowed == IF IsArray(type) THEN {type.c[i].v : i \in 1..Len(type.c)} ELSE {type}
  IN Truthy(type) /\ JStr(Chars(doc.t)) \notin allowed

\* the keywords of sch the value itself violates
OwnViolations(doc, sch) ==
  LET Has(name) == Field(sch, name) # JUndef
      N(name) == Field(sch, name).n
      size == Len(doc.c)
  IN IF doc.t = "array"
     THEN {k \in {"minItems"} : Has(k) /\ size < N(k)}
            \cup {k \in {"maxItems"} : Has(k) /\ size > N(k)}
     ELSE IF doc.t = "object"
     THEN {k \in {"minProperties"} : Has(k) /\ size < N(k)}
            \cup {k \in {"maxProperties"} : Has(k) /\ size > N(k)}
     ELSE {k \in {"enum"} : Has(k) /\ doc \notin {Field(sch, k).c[i].v : i \in 1..Len(Field(sch, k).c)}}
            \cup {k \in {"const"} : Has(k) /\ doc # Field(sch, k)}
            \cup (IF doc.t = "number"
                  THEN {k \in {"minimum"} : Has(k) /\ doc.n < N(k)}
                         \cup {k \in {"exclusiveMinimum"} : Has(k) /\ doc.n <= N(k)}
                         \cup {k \in {"maximum"} : Has(k) /\ doc.n > N(k)}
                         \cup {k \in {"exclusiveMaximum"} : Has(k) /\ doc.n >= N(k)}
                         \cup {k \in {"multipleOf"} : Has(k) /\ \A q \in -4..4 : q * N(k) # doc.n}
                  ELSE {})
            \cup (IF doc.t = "string"
                  THEN {k \in {"minLength"} : Has(k) /\ Len(doc.s) < N(k)}
                         \cup {k \in {"maxLength"} : Has(k) /\ Len(doc.s) > N(k)}
                  ELSE {})

\* every violation of sch in doc, doc being located at loc: a node of the
\* wrong type is one violation and hides what lies beneath it
RECURSIVE Violations(_, _, _)
Violations(doc, sch, loc) ==
  IF TypeMismatch(doc, sch) THEN {Violation(loc, "type")}
  ELSE {Violation(loc, k) : k \in OwnViolations(doc, sch)}
    \cup (IF doc.t = "array"
          THEN {Violation(Append(loc, IdxSeg(i - 1)), "uniqueItems") :
                  i \in {j \in 1..Len(doc.c) :
                           /\ Truthy(Field(sch, "uniqueItems"))
                           /\ \E h \in 1..(j - 1) :
                                JSONstringify(doc.c[h].v) = JSONstringify(doc.c[j].v)}}
                 \cup UNION {Violations(doc.c[i].v, Field(sch, "items"),
                                        Append(loc, IdxSeg(i - 1))) :
                               i \in {j \in 1..Len(doc.c) : Truthy(Field(sch, "items"))}}
          ELSE IF doc.t = "object"
          THEN LET required == Field(sch, "required")
                   properties == Field(sch, "properties")
                   declared == {properties.c[i].k : i \in 1..Len(properties.c)}
                   present == {doc.c[i].k : i \in 1..Len(doc.c)}
               IN {Violation(Append(loc, KeySeg(k)), "required") :
                     k \in {required.c[i].v.s : i \in 1..Len(required.c)} \ present}
                    \cup {Violation(Append(loc, KeySeg(k)), "additionalProperties") :
                            k \in {h \in present \ declared :
                                     Field(sch, "additionalProperties") = JBool(FALSE)}}
                    \cup UNION {Violations(GetProp(doc, k), GetProp(properties, k),
                                           Append(loc, KeySeg(k))) :
                                  k \in present \cap declared}
          ELSE {})

\* the place an error is reported at, as the path engine reads its path
ErrorLoc(e) == parsePathExpression(e.path).segments

IsPrefix(p, q) == Len(p) <= Len(q) /\ SubSeq(q, 1, Len(p)) = p

ErrorsAt(loc) == {i \in 1..Len(ret.errors) : ErrorLoc(ret.errors[i]) = loc}
ErrorsBeneath(loc) ==
  {i \in 1..Len(ret.errors) :
     IsPrefix(loc, ErrorLoc(ret.errors[i])) /\ ErrorLoc(ret.errors[i]) # loc}

Mentions(message, word) ==
  \E i \in 1..Len(message) :
     i + Len(word) - 1 <= Len(message) /\ SubSeq(message, i, i + Len(word) - 1) = Chars(word)

\* C9: validateSchema({}, {type:'object', required:['name'],
\* properties:{name:{type:'string'}}}) is invalid with a single error whose
\* path is the bare property name "name" and whose message mentions
\* "missing"
C9_RequiredAtRoot ==
  (pc = "validateSchema" /\ instance = JObj(<<>>) /\ schema = SchemaScenario5) =>
     /\ ~ret.valid
     /\ Len(ret.errors) = 1
     /\ ret.errors[1].path = KeyName
     /\ Mentions(ret.errors[1].message, "missing")

----------------------------------------------------------------------------
(* Generate engine: properties *)

\* is there a value at the place segs of v: every key present in its
\* object, every index within its array
RECURSIVE Present(_, _)
Present(v, segs) ==
  IF segs = <<>> THEN TRUE
  ELSE IF segs[1].num
  THEN IsArray(v) /\ segs[1].i < Len(v.c) /\ Present(v.c[segs[1].i + 1].v, Tail(segs))
  ELSE /\ IsObject(v)
       /\ \E i \in 1..Len(v.c) : v.c[i].k = segs[1].k /\ Present(v.c[i].v, Tail(segs))

\* the value at the place segs of v, which is present
RECURSIVE ValueAt(_, _)
ValueAt(v, segs) ==
  IF segs = <<>> THEN v
  ELSE IF segs[1].num THEN ValueAt(v.c[segs[1].i + 1].v, Tail(segs))
  ELSE ValueAt((CHOOSE e \in {v.c[i] : i \in 1..Len(v.c)} : e.k = segs[1].k).v, Tail(segs))

C12_WritesArePure ==
  [][pc' \in {"setValue", "deleteValue", "moveValue"} => json' = json]_vars

\* does a segment of segs other than the last address, in v, a key that is
\* absent or a place whose value is null
RECURSIVE MissingLink(_, _)
MissingLink(v, segs) ==
  /\ Len(segs) >= 2
  /\ LET h == segs[1] IN
     IF IsObject(v) /\ ~h.num
     THEN \/ ~HasKey(v, h.k)
          \/ GetProp(v, h.k) = JNull
          \/ MissingLink(GetProp(v, h.k), Tail(segs))
     ELSE IF IsArray(v) /\ h.num /\ h.i >= 0 /\ h.i < Len(v.c)
     THEN \/ v.c[h.i + 1].v = JNull
          \/ MissingLink(v.c[h.i + 1].v, Tail(segs))
     ELSE FALSE

\* C13: jsonPath without create, delete or value is a pure read that never
\* raises for a missing link: when a segment other than the last addresses
\* an absent key or a null value, the call returns exists:false with value
\* undefined, and json is left unchanged
C13_ReadNeverRaises ==
  [][pc' = "evaluate" =>
       /\ json' = json
       /\ MissingLink(json, Parsed) =>
            ret'.err = "" /\ ~ret'.exists /\ ret'.value = JUndef]_vars

\* the value at key of the first of objects, from the i-th on, whose value
\* at key is neither null nor undefined
RECURSIVE FirstNonNull(_, _, _)
FirstNonNull(objects, key, i) ==
  IF i > Len(objects) THEN JUndef
  ELSE IF HasKey(objects[i], key) /\ ~IsNullish(GetProp(objects[i], key))
  THEN GetProp(objects[i], key)
  ELSE FirstNonNull(objects, key, i + 1)

\* C14: mergeWithPriority gives priority to the leftmost object: the call
\* returns, and for every key that holds a value in some object the merged
\* value is that of the first object, in argument order, whose value at
\* the key is neither null nor undefined; mergeWithPriority({a:1}, {a:2})
\* has a = 1
C14_LeftmostWins ==
  pc = "mergeWithPriority" =>
     /\ ret.err = ""
     /\ \A key \in {<<"a">>, <<"b">>} :
          FirstNonNull(ret.objects, key, 1) # JUndef =>
             GetProp(ret.v, key) = FirstNonNull(ret.objects, key, 1)

\* C15: mergeWithResolver calls the resolver for each path at which target
\* and source differ, with the full path of the differing node (for a
\* differing leaf below the root, that leaf's dot-joined path), and every
\* key that only target holds is kept in the result
C15_ResolverGetsFullPath ==
  pc = "mergeWithResolver" =>
     /\ \A keys \in CommonKeyPaths(tgt, src) :
          (/\ ~(IsObject(AtKeys(tgt, keys)) /\ IsObject(AtKeys(src, keys)))
           /\ ~IsNullish(AtKeys(tgt, keys)) /\ ~IsNullish(AtKeys(src, keys))
           /\ ~StructEq(AtKeys(tgt, keys), AtKeys(src, keys))) =>
             \E i \in 1..Len(ret.calls) : ret.calls[i] = DotJoin(keys)
     /\ \A i \in 1..Len(tgt.c) :
          ~HasKey(src, tgt.c[i].k) =>
             /\ IsObject(ret.v) /\ HasKey(ret.v, tgt.c[i].k)
             /\ GetProp(ret.v, tgt.c[i].k) = tgt.c[i].v

\* C16: checkMergeConflicts is a faithful dry run of a throwing merge:
\* checkMergeConflicts(t, s) returns a non-empty list exactly when
\* deepMerge(t, s, {conflictStrategy: 'throw'}) raises JsonMergeError, and
\* the path of the error raised is one of the paths reported
C16_DryRunFaithful ==
  pc = "merged" =>
     /\ ret.conflicts # <<>> <=> ret.err = "JsonMergeError"
     /\ ret.err = "JsonMergeError" =>
          \E i \in 1..Len(ret.conflicts) : ret.conflicts[i].path = ret.path

\* a and b have the same structure, their numeric leaves differ by at most
\* tolerance and their other leaves are equal
RECURSIVE WithinTolerance(_, _, _)
WithinTolerance(a, b, tolerance) ==
  /\ a.t = b.t
  /\ CASE a.t = "number" -> a.n - b.n <= tolerance /\ b.n - a.n <= tolerance
       [] a.t = "array" ->
            /\ Len(a.c) = Len(b.c)
            /\ \A i \in 1..Len(a.c) : WithinTolerance(a.c[i].v, b.c[i].v, tolerance)
       [] a.t = "object" ->
            /\ Len(a.c) = Len(b.c)
            /\ \A i \in 1..Len(a.c) :
                 /\ HasKey(b, a.c[i].k)
                 /\ WithinTolerance(a.c[i].v, GetProp(b, a.c[i].k), tolerance)
       [] OTHER -> a = b

\* C17: compareWithTolerance applies the tolerance to every numeric leaf at
\* any depth: two values of the same structure whose numeric leaves all
\* differ by at most the tolerance and whose other leaves are equal compare
\* as equal with no differences ({a:1} against {a:2}, or [1] against [2],
\* with tolerance 1), and any other pair compares as unequal
C17_ToleranceAtEveryDepth ==
  pc = "compareWithTolerance" =>
     IF WithinTolerance(docA, docB, ret.tolerance)
     THEN ret.equal /\ ret.differences = <<>>
     ELSE ~ret.equal

\* how many elements of the sequence q are structurally equal to v
Occurrences(q, v) == Cardinality({i \in 1..Len(q) : StructEq(q[i], v)})

\* how many elements equal to v the sequence q holds beyond those of r
Surplus(q, r, v) ==
  IF Occurrences(q, v) > Occurrences(r, v) THEN Occurrences(q, v) - Occurrences(r, v) ELSE 0

\* the elements of a that find no partner of their own in b
Unmatched(a, b) == Cardinality({i \in 1..Len(a) :
                      Cardinality({j \in 1..i : StructEq(a[j], a[i])}) > Occurrences(b, a[i])})

\* C18: for any two arrays, of equal or different lengths,
\* compareArraysUnordered reports one 'missing-element' difference for each
\* element of a without a deep-equal partner of its own in b, one
\* 'extra-element' difference for each element of b left unmatched, nothing
\* else, and a similarity of matches / len(a)
C18_UnmatchedReported ==
  (pc = "compareArraysUnordered" /\ IsArray(docA) /\ IsArray(docB)) =>
     LET a == Elems(docA)
         b == Elems(docB)
         diffs == ret.differences
     IN /\ ret.err = ""
        /\ \A i \in 1..Len(diffs) : diffs[i].type \in {"missing-element", "extra-element"}
        /\ \A i \in 1..Len(a) :
             Cardinality({k \in 1..Len(diffs) : /\ diffs[k].type = "missing-element"
                                                /\ StructEq(diffs[k].valueA, a[i])})
               = Surplus(a, b, a[i])
        /\ \A j \in 1..Len(b) :
             Cardinality({k \in 1..Len(diffs) : /\ diffs[k].type = "extra-element"
                                                /\ StructEq(diffs[k].valueB, b[j])})
               = Surplus(b, a, b[j])
        /\ Len(a) > 0 =>
             ret.similarity.num * Len(a) = (Len(a) - Unmatched(a, b)) * ret.similarity.den

\* C19: a 'ref' directive whose $path is missing from the data resolves to
\* its $default when it has one, whether strict is set or not, otherwise to
\* the global defaultValue, and raises JsonGeneratorError only when strict
\* is set and it has no $default (errors being thrown, onError 'throw', and
\* validate left at false)
C19_RefFallback ==
  (/\ pc = "generateJson" /\ data # JUndef
   /\ template \in {RefWithDefault, RefWithoutDefault}
   /\ ~Present(data, <<KeySeg(KeyUser), KeySeg(KeyName)>>)
   /\ genOptions.onError = "throw" /\ ~genOptions.validate) =>
     IF template = RefWithDefault
     THEN ret.err = "" /\ ret.v = JNum(7)
     ELSE IF genOptions.strict
     THEN ret.err = "JsonGeneratorError"
     ELSE ret.err = "" /\ ret.v = genOptions.defaultValue

\* the ten $type tags of the specification
DocumentedTypes ==
  {Chars("ref"), Chars("array"), Chars("object"), Chars("switch"), Chars("transform"),
   Chars("concat"), Chars("math"), Chars("date"), Chars("random"), Chars("literal")}

\* C20: generateJson accepts every documented $type tag: a directive with
\* one of the ten tags is never turned down as an unknown directive, and
\* {$type:'literal', $value:v} generates v without raising (errors being
\* thrown, onError 'throw', and validate left at false)
C20_DocumentedTypesAccepted ==
  (/\ pc = "generateJson" /\ data # JUndef
   /\ IsObject(template) /\ HasKey(template, Chars("$type"))
   /\ GetProp(template, Chars("$type")).s \in DocumentedTypes
   /\ genOptions.onError = "throw" /\ ~genOptions.validate) =>
     /\ ret.msg # Chars("Unknown template directive: ") \o GetProp(template, Chars("$type")).s
     /\ GetProp(template, Chars("$type")).s = Chars("literal") =>
          ret.err = "" /\ ret.v = GetProp(template, Chars("$value"))

\* C21: an 'array' directive with $items and an integer $count >= 0
\* generates an array of exactly $count elements, the empty array for
\* $count = 0, the i-th element being $items processed with $index = i:
\* for $items = "{{$index}}" the array [0, 1, ..., $count - 1] (errors
\* being thrown, onError 'throw', and validate left at false)
C21_ArrayOfCount ==
  (/\ pc = "generateJson" /\ data # JUndef
   /\ genOptions.onError = "throw" /\ ~genOptions.validate) =>
     \A count \in 0..MaxArrLen :
        template = ArrayDirective(count) =>
           ret.err = "" /\ ret.v = JArr([i \in 1..count |-> JNum(i - 1)])


\* C22: with validate and strict set and the default onError 'throw', a
\* generated value that violates the validationSchema (a generated object
\* against the schema {type: 'string'}) makes generateJson raise a
\* JsonGeneratorError
C22_InvalidResultRaises ==
  (/\ pc = "generateJson"
   /\ genOptions.validate /\ genOptions.strict /\ genOptions.onError = "throw"
   /\ genOptions.validationSchema = StringSchema
   /\ generateJson(template, data, [genOptions EXCEPT !.validate = FALSE]).err = ""
   /\ ~validateSchema(generateJson(template, data,
                                   [genOptions EXCEPT !.validate = FALSE]).v,
                      StringSchema).valid)
     => ret.err = "JsonGeneratorError"


Front(q) == SubSeq(q, 1, Len(q) - 1)

\* the path ends in [-k] and addresses an element of an array of json
NegativeLastInRange ==
  /\ Parsed # <<>>
  /\ Parsed[Len(Parsed)].num /\ Parsed[Len(Parsed)].i < 0
  /\ ReadFromEnd(json, Parsed).kind = "found"

\* C23: a write through [-k] on an array of n elements, 1 <= k <= n,
\* leaves the array with n elements, puts the value at position n-k, leaves
\* the other elements as they were, and a following read of the same path
\* returns the value
C23_NegativeIndexWrite ==
  [][(pc = "init" /\ pc' = "setValue" /\ NegativeLastInRange) =>
       LET before == ReadFromEnd(json, Front(Parsed)).val
           after == ReadFromEnd(json', Front(Parsed)).val
           pos == Len(before.c) + Parsed[Len(Parsed)].i + 1
       IN /\ ret'.err = ""
          /\ IsArray(after) /\ Len(after.c) = Len(before.c)
          /\ \A i \in 1..Len(before.c) :
               after.c[i].v = (IF i = pos THEN value ELSE before.c[i].v)
          /\ getValue(json', path) = value]_vars


\* v without the element segs addresses: the key dropped from its object,
\* or the index (counted from the end when negative) dropped from its array
\* with the later elements moved down; everything else as it was
RECURSIVE Without(_, _)
Without(v, segs) ==
  LET h == segs[1]
      pos == IF h.num THEN (IF h.i < 0 THEN Len(v.c) + h.i + 1 ELSE h.i + 1)
             ELSE IndexOfKey(v.c, h.k, 1)
  IN IF Len(segs) = 1
     THEN [v EXCEPT !.c = [j \in 1..(Len(v.c) - 1) |-> IF j < pos THEN v.c[j] ELSE v.c[j + 1]]]
     ELSE [v EXCEPT !.c[pos].v = Without(v.c[pos].v, Tail(segs))]

\* C24: deleting a path that resolves to a present key or an in-range index
\* (negative ones counted from the end) returns exists:false and removes
\* exactly that element: the key is gone and the other keys are unchanged,
\* the array is one shorter with the later elements moved down
C24_DeleteRemovesExactlyOne ==
  [][(/\ pc = "init" /\ pc' = "deleteValue"
      /\ Parsed # <<>> /\ ReadFromEnd(json, Parsed).kind = "found") =>
       /\ ret'.err = "" /\ ~ret'.exists
       /\ json' = Without(json, Parsed)]_vars

C24_Witness ==
  /\ pc = "deleteValue" /\ path = PathScenario1
  /\ ret.err = "" /\ ~ret.exists
  /\ json = JObj(<<Entry(<<"a">>, JObj(<<Entry(<<"b">>, JArr(<<JNum(1), JNum(2)>>))>>))>>)


\* the path ends in a key that is absent from the object its parent path
\* addresses
AbsentLastKey ==
  /\ Parsed # <<>>
  /\ ~Parsed[Len(Parsed)].num
  /\ ReadFromEnd(json, Front(Parsed)).kind = "found"
  /\ IsObject(ReadFromEnd(json, Front(Parsed)).val)
  /\ ~HasKey(ReadFromEnd(json, Front(Parsed)).val, Parsed[Len(Parsed)].k)

\* C25: moveValue from a source path that does not exist, a key absent from
\* an existing parent object included, raises JsonPathError 'Source path
\* does not exist' and leaves json unchanged
C25_MoveFromMissingRaises ==
  [][(pc = "init" /\ pc' = "moveValue" /\ AbsentLastKey) =>
       /\ ret'.err = "JsonPathError" /\ ret'.msg = "Source path does not exist"
       /\ json' = json]_vars


\* C26: moveValue is all-or-nothing: either it returns and the value that
\* was at the source path is found at the destination path, or it raises
\* and json is structurally what it was; it never raises after the source
\* has been deleted
C26_MoveAllOrNothing ==
  [][(pc = "init" /\ pc' = "moveValue") =>
       \A toPath \in MovePaths :
          ret' = moveValue(json, path, toPath) =>
             /\ ret'.err = "" => StructEq(getValue(json', toPath), getValue(json, path))
             /\ ret'.err # "" => StructEq(json', json)]_vars


\* C27: hasPath(json, p) is true exactly when every segment of p addresses
\* a present key or an in-range index; it is false when the last segment is
\* a key absent from an existing parent object
C27_HasPathIffPresent ==
  pc = "hasPath" =>
     /\ ret.exists <=> (ReadFromEnd(json, Parsed).kind = "found")
     /\ AbsentLastKey => ~ret.exists


\* the nodes of v: the keys and indices that lead to each one, and its value
RECURSIVE Nodes(_, _)
Nodes(v, parts) ==
  {[parts |-> parts, val |-> v]}
    \cup (IF IsArray(v) \/ IsObject(v)
          THEN UNION {Nodes(v.c[i].v,
                            Append(parts, IF IsArray(v) THEN NatChars(i - 1) ELSE v.c[i].k)) :
                        i \in 1..Len(v.c)}
          ELSE {})

InsideArray(v, parts) ==
  \E n \in 1..(Len(parts) - 1) :
     \E node \in Nodes(v, <<>>) : node.parts = SubSeq(parts, 1, n) /\ IsArray(node.val)

\* C28: every path string returned by getAllPaths(json) is a valid address:
\* getValue(json, path) returns the value located there, for the nodes
\* inside arrays as well as inside objects, so that findPaths skips no node
\* below an array
C28_AllPathsAddressable ==
  /\ pc = "getAllPaths" =>
       \A node \in Nodes(json, <<>>) :
          (\E i \in 1..Len(ret.paths) : ret.paths[i] = DotJoin(node.parts)) =>
             getValue(json, DotJoin(node.parts)) = node.val
  /\ (pc = "findPaths" /\ ret.pattern = <<>>) =>
       \A node \in Nodes(json, <<>>) :
          (node.parts # <<>> /\ InsideArray(json, node.parts)) =>
             \E i \in 1..Len(ret.results) :
                ret.results[i] = [path |-> DotJoin(node.parts), value |-> node.val]


\* no key of v, at any depth of nested objects, contains the delimiter
RECURSIVE DelimiterFree(_, _)
DelimiterFree(v, delimiter) ==
  IsObject(v) =>
     \A i \in 1..Len(v.c) :
        /\ \A j \in 1..Len(v.c[i].k) :
             SubSeq(v.c[i].k, j, j + Len(delimiter) - 1) # delimiter
        /\ DelimiterFree(v.c[i].v, delimiter)

\* C29: for every nested object x whose keys do not contain the delimiter,
\* arrays taken as leaves and nested objects possibly empty,
\* unflattenJson(flattenJson(x)) is structurally equal to x
C29_FlattenRoundTrip ==
  (pc = "unflattenAfterFlatten" /\ IsObject(tgt) /\ DelimiterFree(tgt, opts.s)) =>
     ret.err = "" /\ StructEq(ret.v, tgt)


\* C30: validateSchema reports each violated constraint once: no two of its
\* errors have the same path and the same message, and a string shorter
\* than minLength that violates nothing else gets exactly one error
C30_NoDuplicateErrors ==
  pc = "validateSchema" =>
     /\ \A i \in 1..Len(ret.errors) : \A j \in 1..Len(ret.errors) :
          (ret.errors[i].path = ret.errors[j].path
             /\ ret.errors[i].message = ret.errors[j].message) => i = j
     /\ (/\ instance.t = "string"
         /\ schema = SchemaOf(<<TypeOf("string"), <<"minLength", JNum(2)>>, <<"maxLength", JNum(2)>>>>)
         /\ Len(instance.s) < 2) => Len(ret.errors) = 1

====
